---------------------------- MODULE Spec2Model ----------------------------
(***************************************************************************)
(* Model of the DingTalk channel plugin: the access-token cache            *)
(* (src/src/client.ts), the message classifier and handlers, and the       *)
(* Stream session monitor (src/unnamed/part_004, the current monitor.ts).  *)
(*                                                                         *)
(* Time is in milliseconds, as Date.now() is.  Text is a sequence of       *)
(* one-character strings so that trim() is computed, not assumed.          *)
(***************************************************************************)
EXTENDS Integers, Sequences, FiniteSets, TLC

\* ------------------------------------------------------------------ bounds
\* longest text content drawn for a message
MaxTextLen == 2
\* longest richText element list drawn for a message
MaxRichLen == 1

\* ------------------------------------------------------- JavaScript values
\* the value of a field the payload does not carry (undefined / null)
Undefined == "<undefined>"
\* a text content that is not a string (a JSON number): .trim is not a function
NotAString == <<"<number>">>
\* an absent text content, in the shape of a text
UndefinedText == <<Undefined>>
\* a content.richText that is truthy but not iterable (a JSON number or object)
NotIterable == <<[type |-> "<not-iterable>", text |-> <<Undefined>>,
                  downloadCode |-> Undefined, pictureDownloadCode |-> Undefined]>>
\* an absent content.richText, in the shape of an element list
UndefinedRich == <<[type |-> Undefined, text |-> <<Undefined>>,
                    downloadCode |-> "<no-list>", pictureDownloadCode |-> Undefined]>>

Chars == {" ", "a"}
Whitespace == {" ", "\n"}

RECURSIVE SeqsUpTo(_, _)
SeqsUpTo(S, n) ==
    IF n = 0 THEN {<<>>}
    ELSE LET shorter == SeqsUpTo(S, n - 1)
         IN  shorter \cup {Append(s, x) : s \in shorter, x \in S}

IsString(t) == t # NotAString /\ t # UndefinedText

\* String.prototype.trim, by what it does: whitespace is dropped at both ends
RECURSIVE TrimStart(_)
TrimStart(s) ==
    IF s = <<>> THEN <<>>
    ELSE IF Head(s) \in Whitespace THEN TrimStart(Tail(s)) ELSE s

RECURSIVE TrimEnd(_)
TrimEnd(s) ==
    IF s = <<>> THEN <<>>
    ELSE IF s[Len(s)] \in Whitespace THEN TrimEnd(SubSeq(s, 1, Len(s) - 1)) ELSE s

Trim(s) == TrimEnd(TrimStart(s))

\* a JavaScript string or undefined used as a condition
Truthy(v) == v # Undefined /\ v # ""

\* a ?? b
Coalesce(a, b) == IF a # Undefined THEN a ELSE b

\* ---------------------------------------------------------------- messages
SupportedTypes == {"text", "picture", "audio", "video", "file", "richText"}

\* richText elements: type is "text", "picture" or absent; a JSON null element
\* is the record NullElement, on which every property read throws
NullElement == [type |-> "<null>", text |-> UndefinedText,
                downloadCode |-> Undefined, pictureDownloadCode |-> Undefined]

RichElements(types, texts, codes) ==
    [type : types, text : texts, downloadCode : codes, pictureDownloadCode : codes]

\* DingTalkMessageData, the fields the monitor reads
MessageSpace(types, convs, hooks, texts, codes, pictureCodes, riches) ==
    [msgtype : types, conversationType : convs, sessionWebhook : hooks,
     text : texts, downloadCode : codes, pictureDownloadCode : pictureCodes,
     richText : riches]

\* ---------------------------------------------------------------- handlers
\* the messageHandlers registry, in priority order; the catch-all is last
messageHandlers ==
    <<"text", "picture", "audio", "video", "file", "richText", "unsupported">>

\* the errorMessage literals of the validate functions (ASCII renderings)
ErrPictureNoCode == "picture failed: missing download code"
ErrAudioNoCode == "audio failed: missing download code"
ErrVideoNoCode == "video failed: missing download code"
ErrFileNoCode == "file failed: missing download code"
ErrRichTextFormat == "richText message format error"
ErrUnsupported == "unsupported message type, send text, picture, audio, video, file or richText"

canHandle(h, data) ==
    IF h = "unsupported" THEN TRUE ELSE data.msgtype = h

\* a lookup that keeps the last match instead of the first
getMessageHandler_Last(data) ==
    LET matching == {i \in 1..Len(messageHandlers) : canHandle(messageHandlers[i], data)}
        last == CHOOSE i \in matching : \A j \in matching : i >= j
    IN  messageHandlers[last]

\* messageHandlers.find(h => h.canHandle(data))
getMessageHandler(data) ==
    LET matching == {i \in 1..Len(messageHandlers) : canHandle(messageHandlers[i], data)}
        first == CHOOSE i \in matching : \A j \in matching : i <= j
    IN  messageHandlers[first]

\* no element is taken for a picture
isRichTextPicture_Never(element) == FALSE

isRichTextPicture(element) == element.type = "picture"

getRichTextPictureDownloadCode(element) ==
    Coalesce(element.downloadCode, element.pictureDownloadCode)

\* the loop of parseRichTextContent over the elements, in order
RECURSIVE parseRichTextContent(_)
parseRichTextContent(richText) ==
    IF richText = <<>> THEN [textParts |-> <<>>, imageInfos |-> <<>>]
    ELSE LET element == Head(richText)
             rest == parseRichTextContent(Tail(richText))
         IN  IF isRichTextPicture(element)
             THEN LET downloadCode == getRichTextPictureDownloadCode(element)
                  IN  IF Truthy(downloadCode)
                      THEN [rest EXCEPT !.imageInfos =
                                <<[downloadCode |-> downloadCode]>> \o @]
                      ELSE rest
             ELSE IF IsString(element.text) /\ element.text # <<>>
                  THEN [rest EXCEPT !.textParts = <<element.text>> \o @]
                  ELSE rest

\* parseRichTextContent throws a TypeError: the list is not iterable, or an
\* element is null
parseThrows(richText) ==
    \/ richText = NotIterable
    \/ \E i \in 1..Len(richText) : richText[i] = NullElement

\* previews that never throw, so that a bad value is first met by validate
getPreviewThrows_Never(h, data) == FALSE

\* getPreview throws (the preview text itself only goes to the log)
getPreviewThrows(h, data) ==
    CASE h = "text" -> data.text = NotAString
      [] h = "richText" -> data.richText # UndefinedRich /\ parseThrows(data.richText)
      [] OTHER -> FALSE

Valid == [valid |-> TRUE, errorMessage |-> Undefined]
Invalid(errorMessage) == [valid |-> FALSE, errorMessage |-> errorMessage]

\* an empty text answered with an error message instead of silence
textValidate_Loud(data) ==
    LET text == IF data.text = UndefinedText THEN <<>> ELSE Trim(data.text)
    IN  IF text = <<>> THEN Invalid("empty message") ELSE Valid

textValidate(data) ==
    LET text == IF data.text = UndefinedText THEN <<>> ELSE Trim(data.text)
    IN  IF text = <<>> THEN Invalid(Undefined) ELSE Valid

pictureValidate(data) ==
    LET downloadCode == Coalesce(data.downloadCode, data.pictureDownloadCode)
    IN  IF ~Truthy(downloadCode) THEN Invalid(ErrPictureNoCode) ELSE Valid

audioValidate(data) ==
    IF ~Truthy(data.downloadCode) THEN Invalid(ErrAudioNoCode) ELSE Valid

videoValidate(data) ==
    IF ~Truthy(data.downloadCode) THEN Invalid(ErrVideoNoCode) ELSE Valid

fileValidate(data) ==
    IF ~Truthy(data.downloadCode) THEN Invalid(ErrFileNoCode) ELSE Valid

richTextValidate(data) ==
    IF data.richText = UndefinedRich \/ data.richText = NotIterable
    THEN Invalid(ErrRichTextFormat)
    ELSE LET parsed == parseRichTextContent(data.richText)
         IN  IF Len(parsed.textParts) = 0 /\ Len(parsed.imageInfos) = 0
             THEN Invalid(Undefined)
             ELSE Valid

\* a catch-all that rejects without a message
unsupportedValidate_Silent(data) == Invalid(Undefined)

unsupportedValidate(data) == Invalid(ErrUnsupported)

\* handler.validate(data)
validate(h, data) ==
    CASE h = "text" -> textValidate(data)
      [] h = "picture" -> pictureValidate(data)
      [] h = "audio" -> audioValidate(data)
      [] h = "video" -> videoValidate(data)
      [] h = "file" -> fileValidate(data)
      [] h = "richText" -> richTextValidate(data)
      [] OTHER -> unsupportedValidate(data)

\* handler.validate(data) throws instead of returning
validateThrows(h, data) ==
    CASE h = "text" -> data.text = NotAString
      [] h = "richText" ->
            /\ data.richText # UndefinedRich
            /\ data.richText # NotIterable
            /\ parseThrows(data.richText)
      [] OTHER -> FALSE

\* ------------------------------------------------------------------- state
VARIABLES
    data,            \* classifier: the decoded message under classification
    classified,      \* classifier: what getMessageHandler and validate gave
    now,             \* Date.now()
    tokenCacheMap,   \* client.ts: identity -> {token, expireTime}
    call,            \* the getAccessToken call of each caller
    runtimeState,    \* monitor: "channel:accountId" -> runtime record
    ev,              \* monitor: the pipeline of each inbound event
    log,             \* monitor: the outside calls each event made, in order
    posts,           \* monitor: the webhook POSTs made for each event
    client,          \* monitor: the DWClient and the stop/abort wiring
    request,         \* channel.ts: the arguments of a resolveTarget call
    resolved,        \* channel.ts: what resolveTarget returned
    context,         \* monitor: two messages and the inbound contexts built for them
    outbound         \* channel.ts: one sendMedia call and the messages it sent

classifyVars == <<data, classified, request, resolved, context, outbound>>
tokenVars == <<now, tokenCacheMap, call>>
monitorVars == <<runtimeState, ev, log, posts, client>>
vars == <<data, classified, now, tokenCacheMap, call, runtimeState, ev, log,
          posts, client, request, resolved, context, outbound>>

\* ---------------------------------------------------------- outbound target
\* most entries of an allowFrom list
MaxAllow == 2

\* a target string: optional surrounding blanks, an optional channel prefix,
\* and the rest
TargetIds == {"", "u1", "u2", "a b", "*"}
TargetStrings ==
    {t \in [pad : BOOLEAN, prefix : {"", "dingtalk:user:"}, id : TargetIds] :
        t.pad => (t.prefix = "" /\ t.id \in {"", "u1"})}
\* `to` when the caller passes none
UndefinedString == [pad |-> FALSE, prefix |-> Undefined, id |-> Undefined]
Modes == {"explicit", "implicit", "heartbeat", Undefined}

\* the ids that /^[a-zA-Z0-9_$+-]+$/ accepts
WellFormed(id) == id \in {"u1", "u2"}
\* String.prototype.trim on a target string
trimTarget(t) == [t EXCEPT !.pad = FALSE]
\* the empty string
IsEmpty(t) == t.prefix = "" /\ t.id = ""

\* normalizeDingTalkTarget: trimmed, the prefix removed, the rest checked;
\* Undefined when nothing well-formed is left
normalizeDingTalkTarget(target) ==
    LET trimmed == trimTarget(target)
        withoutPrefix == trimmed.id
    IN  IF IsEmpty(trimmed) THEN Undefined
        ELSE IF withoutPrefix = "" THEN Undefined
        ELSE IF WellFormed(withoutPrefix) THEN withoutPrefix
        ELSE Undefined

\* allowListRaw: the entries trimmed, the empty ones dropped
allowListRawOf(list) ==
    LET trimmed == [i \in 1..Len(list) |-> trimTarget(list[i])]
    IN  SelectSeq(trimmed, LAMBDA entry : ~IsEmpty(entry))

IsWildcard(entry) == entry.prefix = "" /\ entry.id = "*"

RECURSIVE Reversed(_)
Reversed(q) == IF q = <<>> THEN <<>> ELSE Append(Reversed(Tail(q)), Head(q))

\* allowList: the raw list without "*", each entry normalized, the ones that
\* do not normalize dropped
allowListFull(list) ==
    LET named == SelectSeq(allowListRawOf(list), LAMBDA entry : ~IsWildcard(entry))
        normalized == [i \in 1..Len(named) |-> normalizeDingTalkTarget(named[i])]
    IN  SelectSeq(normalized, LAMBDA entry : entry # Undefined)

\* an allow list taken from its end
allowListOf_Last(list) == Reversed(allowListFull(list))

allowListOf(list) == allowListFull(list)

MissingTarget == [ok |-> FALSE, to |-> Undefined]
Target(id) == [ok |-> TRUE, to |-> id]

\* outbound.resolveTarget({ to, allowFrom, mode })
resolveTarget(to, list, mode) ==
    LET trimmed == IF to = UndefinedString THEN [pad |-> FALSE, prefix |-> "", id |-> ""]
                   ELSE trimTarget(to)
        allowListRaw == allowListRawOf(list)
        hasWildcard == \E i \in 1..Len(allowListRaw) : IsWildcard(allowListRaw[i])
        allowList == allowListOf(list)
        normalizedTo == normalizeDingTalkTarget(trimmed)
        implicit == mode \in {"implicit", "heartbeat"}
    IN  IF ~IsEmpty(trimmed)
        THEN IF normalizedTo = Undefined
             THEN IF implicit /\ Len(allowList) > 0 THEN Target(allowList[1])
                  ELSE MissingTarget
             ELSE IF mode = "explicit" THEN Target(normalizedTo)
             ELSE IF implicit
             THEN IF hasWildcard \/ Len(allowList) = 0 THEN Target(normalizedTo)
                  ELSE IF \E i \in 1..Len(allowList) : allowList[i] = normalizedTo
                  THEN Target(normalizedTo)
                  ELSE Target(allowList[1])
             ELSE Target(normalizedTo)
        ELSE IF Len(allowList) > 0 THEN Target(allowList[1])
        ELSE MissingTarget

NoRequest == [to |-> UndefinedString, allowFrom |-> <<>>, mode |-> Undefined]
NotResolved == [ran |-> FALSE, result |-> MissingTarget]
\* no context has been asked for
NoContext == [ran |-> FALSE, a |-> <<>>, b |-> <<>>, ctxA |-> <<>>, ctxB |-> <<>>]
\* no sendMedia call has been made
NoSend == [st |-> "off", text |-> <<Undefined>>, mediaUrl |-> Undefined,
           photoURL |-> <<>>, sent |-> <<>>, caught |-> <<>>, result |-> Undefined]
IdleTarget ==
    request = NoRequest /\ resolved = NotResolved /\ context = NoContext
        /\ outbound = NoSend

InitTarget ==
    /\ request \in [to : TargetStrings \cup {UndefinedString},
                     allowFrom : SeqsUpTo(TargetStrings, MaxAllow),
                     mode : Modes]
    /\ resolved = NotResolved
    /\ context = NoContext
    /\ outbound = NoSend

\* the host calls resolveTarget with the request
ResolveTarget ==
    /\ ~resolved.ran
    /\ resolved' = [ran |-> TRUE,
                    result |-> resolveTarget(request.to, request.allowFrom,
                                             request.mode)]
    /\ UNCHANGED <<data, classified, request, context, outbound, tokenVars, monitorVars>>

NextTarget == ResolveTarget

\* ------------------------------------------------------------- token cache
\* more bounds
NumCallers == 2
MaxTicks == 2

\* the cache check is "expireTime - 5 * 60 * 1000"
SafetyMargin == 5 * 60 * 1000
\* response.body.expireIn ?? 7200
DefaultExpireIn == 7200

Callers == 1..NumCallers
Identities == {"appA", "appB"}
\* how far the clock moves between two steps of the program: one minute
ClockSteps == {60 * 1000}
\* the token the OAuth endpoint issues for an identity at a time
IssuedToken(id, t) == <<id, t>>
\* expireIn values (seconds) the OAuth endpoint answers; <<>>: none given
ExpireIns == {<<360>>, <<480>>, <<>>}
ErrTokenEmpty == "get access_token failed: empty result"
ErrNetwork == "network error"

NoEntry == [token |-> <<Undefined, 0>>, expireTime |-> 0]
IdleCall == [st |-> "idle", id |-> Undefined, token |-> <<Undefined, 0>>,
             error |-> Undefined, exchanges |-> 0]

\* what the exchange call can come back with
Responses ==
    [kind : {"token"}, expireIn : ExpireIns]
        \cup [kind : {"empty", "throw"}, expireIn : {<<>>}]

\* the margin taken off the wrong side: entries are served until they expire
isCacheValid_NoMargin(cached, t) ==
    cached # NoEntry /\ t < cached.expireTime

\* the margin applied twice: fresh entries are refreshed all the same
isCacheValid_Eager(cached, t) ==
    cached # NoEntry /\ t + SafetyMargin < cached.expireTime - SafetyMargin

\* cached && Date.now() < cached.expireTime - 5 * 60 * 1000
isCacheValid(cached, t) ==
    cached # NoEntry /\ t < cached.expireTime - SafetyMargin

\* Date.now() + (response.body.expireIn ?? 7200) * 1000
expireTimeOf(t, expireIn) ==
    t + (IF expireIn = <<>> THEN DefaultExpireIn ELSE expireIn[1]) * 1000

\* a failed exchange that drops the entry of the identity
cacheAfterFailure_Evict(cache, id) == [cache EXCEPT ![id] = NoEntry]

\* what a failed exchange does to the cache: nothing
cacheAfterFailure(cache, id) == cache

\* the state a call is in after an exchange that yielded no token: the throw
callAfterEmpty(c) ==
    [call[c] EXCEPT !.st = "failed", !.error = ErrTokenEmpty]

\* getAccessToken up to its await: the cache lookup, then either the cached
\* token or the start of the exchange
GetAccessTokenStep(c, id) ==
    LET cached == tokenCacheMap[id]
    IN  IF isCacheValid(cached, now)
        THEN call' = [call EXCEPT ![c] =
                 [st |-> "returned", id |-> id, token |-> cached.token,
                  error |-> Undefined, exchanges |-> 0]]
        ELSE call' = [call EXCEPT ![c] =
                 [st |-> "exchanging", id |-> id, token |-> <<Undefined, 0>>,
                  error |-> Undefined, exchanges |-> 1]]

\* a cache that keeps the entry it already has
storeToken_KeepFirst(cache, id, entry) ==
    IF cache[id] # NoEntry THEN cache ELSE [cache EXCEPT ![id] = entry]

\* tokenCacheMap.set(cacheKey, { token, expireTime })
storeToken(cache, id, entry) == [cache EXCEPT ![id] = entry]

\* getAccessToken after its await: the response is stored and returned, or
\* the call throws
ExchangeReturnStep(c, resp) ==
    LET id == call[c].id
    IN  CASE resp.kind = "token" ->
               /\ tokenCacheMap' = storeToken(tokenCacheMap, id,
                      [token |-> IssuedToken(id, now),
                       expireTime |-> expireTimeOf(now, resp.expireIn)])
               /\ call' = [call EXCEPT ![c].st = "returned",
                                       ![c].token = IssuedToken(id, now)]
          [] resp.kind = "empty" ->
               /\ call' = [call EXCEPT ![c] = callAfterEmpty(c)]
               /\ tokenCacheMap' = cacheAfterFailure(tokenCacheMap, id)
          [] OTHER ->
               /\ call' = [call EXCEPT ![c].st = "failed", ![c].error = ErrNetwork]
               /\ UNCHANGED tokenCacheMap

\* a caller (probeDingTalkBot, sendTextMessage, uploadMedia, ...) calls
\* getAccessToken(account)
GetAccessToken(c, id) ==
    /\ call[c].st \in {"idle", "returned", "failed"}
    /\ GetAccessTokenStep(c, id)
    /\ UNCHANGED <<now, tokenCacheMap, classifyVars, monitorVars>>

ExchangeReturn(c, resp) ==
    /\ call[c].st = "exchanging"
    /\ ExchangeReturnStep(c, resp)
    /\ UNCHANGED <<now, classifyVars, monitorVars>>

Tick(d) ==
    /\ now + d <= MaxTicks * 60000
    /\ now' = now + d
    /\ UNCHANGED <<tokenCacheMap, call, classifyVars, monitorVars>>

InitToken ==
    /\ now = 0
    /\ tokenCacheMap = [id \in Identities |-> NoEntry]
    /\ call = [c \in Callers |-> IdleCall]

NextToken ==
    \/ \E c \in Callers, id \in Identities : GetAccessToken(c, id)
    \/ \E c \in Callers, resp \in Responses : ExchangeReturn(c, resp)
    \/ \E d \in ClockSteps : Tick(d)

\* -------------------------------------------------------------- classifier
Texts == SeqsUpTo(Chars \ {"\n"}, MaxTextLen) \cup {UndefinedText, NotAString}
Codes == {Undefined, "", "c1"}
ElementSpace ==
    RichElements({"text", "picture", Undefined}, {UndefinedText, <<>>, <<"a">>},
                 Codes) \cup {NullElement}
\* the elements a classified richText message is drawn from
SomeElements ==
    {e \in ElementSpace :
        /\ e.type # Undefined
        /\ e.type = "text" => e.downloadCode = Undefined /\ e.pictureDownloadCode = Undefined
        /\ e.type = "picture" => e.text = UndefinedText /\ e.downloadCode # ""}
Riches == SeqsUpTo(SomeElements, MaxRichLen) \cup {UndefinedRich, NotIterable}

ClassifiedMessages ==
    MessageSpace(SupportedTypes \cup {"voice", "markdown", Undefined}, {"1"},
                 {Undefined}, Texts, Codes, Codes, Riches)

NotRun == [ran |-> FALSE, handler |-> Undefined, matching |-> {},
           threw |-> FALSE, validation |-> Valid,
           parsed |-> [textParts |-> <<>>, imageInfos |-> <<>>]]

InitClassify ==
    /\ data \in ClassifiedMessages
    /\ classified = NotRun
    /\ IdleTarget

\* getMessageHandler(data), then handler.validate(data)
Classify ==
    /\ ~classified.ran
    /\ LET handler == getMessageHandler(data)
       IN  classified' =
               [ran |-> TRUE,
                handler |-> handler,
                matching |-> {messageHandlers[i] : i \in
                                {j \in 1..Len(messageHandlers) :
                                    canHandle(messageHandlers[j], data)}},
                threw |-> validateThrows(handler, data),
                validation |-> IF validateThrows(handler, data) THEN Valid
                               ELSE validate(handler, data),
                parsed |-> NotRun.parsed]
    /\ UNCHANGED <<data, request, resolved, context, outbound, tokenVars, monitorVars>>

NextClassify == Classify

\* the message no classification is running on
NoMessage ==
    [msgtype |-> Undefined, conversationType |-> "1", sessionWebhook |-> Undefined,
     text |-> UndefinedText, downloadCode |-> Undefined,
     pictureDownloadCode |-> Undefined, richText |-> UndefinedRich]

IdleClassify == data = NoMessage /\ classified = NotRun /\ IdleTarget

\* ------------------------------------------------------- rich-text parsing
\* most elements of a parsed rich-text list
MaxElements == 2

\* rich-text elements as the platform may send them: with and without a
\* type, a text, and either download code
ParsedElements ==
    {el \in RichElements({Undefined, "text", "picture"},
                         {UndefinedText, <<>>, <<"a">>, <<"b">>},
                         {Undefined, "", "c1"}) :
        /\ el.type # "picture" =>
              el.downloadCode = Undefined /\ el.pictureDownloadCode = Undefined
        /\ el.type = "picture" => el.text \in {UndefinedText, <<"a">>}}

InitParse ==
    /\ data \in {[NoMessage EXCEPT !.msgtype = "richText", !.richText = richText] :
                    richText \in SeqsUpTo(ParsedElements, MaxElements)}
    /\ classified = NotRun
    /\ IdleTarget

\* parseRichTextContent(content) on the content of the message
ParseRichText ==
    /\ ~classified.ran
    /\ classified' = [classified EXCEPT !.ran = TRUE,
                          !.parsed = parseRichTextContent(data.richText)]
    /\ UNCHANGED <<data, request, resolved, context, outbound, tokenVars, monitorVars>>

NextParse == ParseRichText

\* ----------------------------------------------------------------- monitor
PLUGIN_ID == "dingtalk"
\* the inbound events a run delivers
Events == {"e1", "e2"}
\* options.accountId and account.clientId of the monitored account
accountId == "default"
clientId == "appA"
\* account.allowFrom of the monitored account: one user id
allowFrom == <<"u1">>
\* data.senderStaffId of the message each event carries
senderStaffId(e) == IF e = "e1" THEN "u1" ELSE "u2"

\* entry.replace(/^dingtalk:(?:user:)?/i, "") on the entries in use
stripPrefix(entry) ==
    CASE entry \in {"dingtalk:u1", "dingtalk:user:u1", "DingTalk:u1"} -> "u1"
      [] entry \in {"dingtalk:u2", "dingtalk:user:u2", "DingTalk:u2"} -> "u2"
      [] OTHER -> entry

\* isSenderAllowed: everyone when the trimmed list is empty or holds "*",
\* else the senders whose id is an entry of the list, prefix removed
isSenderAllowed(list, senderId) ==
    LET allowList == SelectSeq(list, LAMBDA entry : entry # "")
    IN  \/ allowList = <<>>
        \/ \E i \in 1..Len(allowList) : allowList[i] = "*"
        \/ \E i \in 1..Len(allowList) : stripPrefix(allowList[i]) = senderId

\* `${channel}:${accountId}`
StateKey(channel, acct) == <<channel, acct>>
StateKeys == {StateKey(PLUGIN_ID, accountId), StateKey(PLUGIN_ID, "other")}

\* null, for a timestamp and for lastError
Null == <<>>
NullError == "<null>"
\* the record recordChannelRuntimeState starts from when the map has none
DefaultRuntime ==
    [present |-> FALSE, running |-> FALSE, lastStartAt |-> Null,
     lastStopAt |-> Null, lastError |-> NullError, lastInboundAt |-> Null,
     lastOutboundAt |-> Null]

\* an update that starts from the default record instead of the stored one
recordChannelRuntimeState_Replace(rs, channel, acct, state) ==
    LET key == StateKey(channel, acct)
    IN  [rs EXCEPT ![key] =
            [f \in DOMAIN DefaultRuntime |->
                IF f = "present" THEN TRUE
                ELSE IF f \in DOMAIN state THEN state[f] ELSE DefaultRuntime[f]]]

\* runtimeState.set(key, { ...existing, ...params.state })
recordChannelRuntimeState(rs, channel, acct, state) ==
    LET key == StateKey(channel, acct)
        existing == rs[key]
    IN  [rs EXCEPT ![key] =
            [f \in DOMAIN existing |->
                IF f = "present" THEN TRUE
                ELSE IF f \in DOMAIN state THEN state[f] ELSE existing[f]]]

\* several recordChannelRuntimeState calls of this monitor, in order
RECURSIVE recordAll(_, _)
recordAll(rs, states) ==
    IF states = <<>> THEN rs
    ELSE recordAll(recordChannelRuntimeState(rs, PLUGIN_ID, accountId, Head(states)),
                   Tail(states))

\* error texts (err.message) of the failures the pipeline can meet
ErrJsonParse == "Unexpected token in JSON"
ErrTypeError == "TypeError"
ErrNoUrl == "get download url failed: empty result"
ErrFetchStatus == "download failed: 404"
ErrSave == "save failed"
ErrHost == "dispatch failed"
ErrConnect == "connect failed"
ErrSocket == "socket error"
\* the message prefix of the error deliver throws on a non-zero errcode
ErrReplyFailed == "reply failed: errmsg"

\* the "<kind> processing failed:" prefix of each handler's catch
FailedPrefix(h) ==
    CASE h = "picture" -> "picture failed: "
      [] h = "audio" -> "audio failed: "
      [] h = "video" -> "video failed: "
      [] h = "file" -> "file failed: "
      [] OTHER -> "richText failed: "

\* the download codes in the reverse of their order in the message
downloadCodes_Reversed(h, d) ==
    CASE h = "picture" -> <<Coalesce(d.downloadCode, d.pictureDownloadCode)>>
      [] h \in {"audio", "video", "file"} -> <<d.downloadCode>>
      [] h = "richText" ->
            LET infos == parseRichTextContent(d.richText).imageInfos
            IN  [i \in 1..Len(infos) |-> infos[Len(infos) + 1 - i].downloadCode]
      [] OTHER -> <<>>

\* the download codes handler.handle fetches, in order
downloadCodes(h, d) ==
    CASE h = "picture" -> <<Coalesce(d.downloadCode, d.pictureDownloadCode)>>
      [] h \in {"audio", "video", "file"} -> <<d.downloadCode>>
      [] h = "richText" ->
            LET infos == parseRichTextContent(d.richText).imageInfos
            IN  [i \in 1..Len(infos) |-> infos[i].downloadCode]
      [] OTHER -> <<>>

\* every item is labelled as a file
mediaKindOf_File(h) == "file"

\* the kind of the media items a handler builds
mediaKindOf(h) == IF h = "richText" THEN "picture" ELSE h

\* textParts.join("\n")
RECURSIVE JoinLines(_)
JoinLines(parts) ==
    IF parts = <<>> THEN <<>>
    ELSE IF Len(parts) = 1 THEN parts[1]
    ELSE parts[1] \o <<"\n">> \o JoinLines(Tail(parts))

\* a richText handle that writes the text field even when there is no text
dataAfterHandle_Always(h, d) ==
    IF h = "richText"
    THEN [d EXCEPT !.text = Trim(JoinLines(parseRichTextContent(d.richText).textParts))]
    ELSE d

\* the message as handle leaves it on success: the richText handler writes
\* the joined text into data.text when it is not empty
dataAfterHandle(h, d) ==
    IF h = "richText"
    THEN LET combinedText == Trim(JoinLines(parseRichTextContent(d.richText).textParts))
         IN  IF combinedText # <<>> THEN [d EXCEPT !.text = combinedText] ELSE d
    ELSE d

\* the at block of a reply body when no options are passed
NoAt == [atUserIds |-> <<>>, isAtAll |-> FALSE]

\* a reply body that is always the plain-text one
replyBody_Plain(content, useMarkdown) ==
    [msgtype |-> "text", text |-> [content |-> content], at |-> NoAt]

\* the body replyViaWebhook posts: markdown unless useMarkdown is false
replyBody(content, useMarkdown) ==
    IF useMarkdown
    THEN [msgtype |-> "markdown", markdown |-> [text |-> content], at |-> NoAt]
    ELSE [msgtype |-> "text", text |-> [content |-> content], at |-> NoAt]

\* replyViaWebhook(webhook, content): the POST it starts
webhookPost(webhook, content, by) ==
    [webhook |-> webhook, body |-> replyBody(content, TRUE), by |-> by,
     status |-> "inflight"]

\* an error reply that goes out whether or not there is a reply address
replyError_Anywhere(webhook, message) ==
    IF message = <<Undefined>> \/ message = <<>>
    THEN <<>>
    ELSE <<webhookPost(webhook, message, "replyError")>>

\* an error reply that goes out whether or not there is a message
replyError_Unchecked(webhook, message) ==
    IF ~Truthy(webhook)
    THEN <<>>
    ELSE <<webhookPost(webhook, message, "replyError")>>

\* replyError(webhook, message): the POSTs it starts, none when either is missing
replyError(webhook, message) ==
    IF ~Truthy(webhook) \/ message = <<Undefined>> \/ message = <<>>
    THEN <<>>
    ELSE <<webhookPost(webhook, message, "replyError")>>

\* an event the stream has not delivered yet; received keeps the message as
\* JSON.parse returned it, rawBody the body built for the host
WaitingEvent ==
    [st |-> "waiting", outcome |-> Undefined, decoded |-> FALSE,
     data |-> NoMessage, handler |-> Undefined, validation |-> Valid,
     codes |-> <<>>, buffer |-> 0, items |-> <<>>, media |-> <<>>,
     handleCalls |-> 0, dispatches |-> 0, delivers |-> 0, reply |-> <<>>,
     caught |-> {}, thrown |-> Undefined, received |-> NoMessage,
     rawBody |-> <<>>]

\* most deliver() calls the host makes for one message
MaxDelivers == 1
\* most stop() calls made on one monitor
MaxStops == 2

\* the messages the stream delivers: each kind with a content of its shape
\* (rich text with text only, with a picture only and with both), with and
\* without a reply address, and a group message
MonitorMessages ==
    {m \in MessageSpace(SupportedTypes \cup {"voice"}, {"1", "2"},
                        {Undefined, "https://x"},
                        {UndefinedText, <<"a">>, NotAString},
                        {Undefined, "c1"}, {Undefined},
                        {UndefinedRich, <<>>,
                         <<[type |-> "text", text |-> <<"a">>,
                            downloadCode |-> Undefined,
                            pictureDownloadCode |-> Undefined]>>,
                         <<[type |-> "picture", text |-> UndefinedText,
                            downloadCode |-> Undefined,
                            pictureDownloadCode |-> "c2"]>>,
                         <<[type |-> "text", text |-> <<"a">>,
                            downloadCode |-> Undefined,
                            pictureDownloadCode |-> Undefined],
                           [type |-> "picture", text |-> UndefinedText,
                            downloadCode |-> "c1",
                            pictureDownloadCode |-> Undefined],
                           [type |-> "picture", text |-> UndefinedText,
                            downloadCode |-> Undefined,
                            pictureDownloadCode |-> "c2"]>>}) :
        /\ m.msgtype # "text" => m.text = UndefinedText
        /\ m.msgtype \notin {"picture", "audio", "video", "file"} =>
              m.downloadCode = Undefined
        /\ m.msgtype \in {"audio", "video", "file"} => m.downloadCode # Undefined
        /\ m.msgtype # "richText" => m.richText = UndefinedRich
        /\ m.conversationType = "2" =>
              m.msgtype = "text" /\ m.text = <<"a">> /\ m.sessionWebhook # Undefined}

\* message.data as the stream hands it over: JSON text that parses to a
\* message, or text that JSON.parse rejects
RawPayloads ==
    [decodes : {TRUE}, data : MonitorMessages]
        \cup [decodes : {FALSE}, data : {NoMessage}]

\* saved.contentType ?? "application/octet-stream" of a file whose type the
\* host did not detect
SavedContentType == "application/octet-stream"
\* what the host passes to deliver as payload.text ("" when it has none)
ReplyTexts == {<<"hi there">>, <<>>}
\* buffer.length of a downloaded file
BufferSizes == {3, 5}

\* an absent media context (the argument left out)
NoMedia == <<>>
\* an optional field of an object is present (not undefined)
Has(obj, field) == field \in DOMAIN obj
\* media.items, and no items when there is no media context
itemsOf(media) == IF Has(media, "items") THEN media.items ELSE <<>>

\* buildMediaContextFields: no field for an absent or empty media context;
\* else the fields of the primary item (media.primary ?? media.items[0]),
\* the arrays over all items, MediaTypes with the falsy types filtered out,
\* and the fields that depend on the kind of the primary
buildMediaContextFields(media) ==
    IF ~Has(media, "items") \/ Len(media.items) = 0 THEN <<>>
    ELSE
    LET items == media.items
        primary == IF Has(media, "primary") THEN media.primary ELSE items[1]
        baseFields ==
            [MediaPath |-> primary.path,
             MediaType |-> primary.contentType,
             MediaUrl |-> primary.path,
             MediaPaths |-> [i \in 1..Len(items) |-> items[i].path],
             MediaUrls |-> [i \in 1..Len(items) |-> items[i].path],
             MediaTypes |-> SelectSeq([i \in 1..Len(items) |-> items[i].contentType],
                                      LAMBDA t : t # "")]
        duration ==
            IF primary.kind \in {"audio", "video"} /\ Has(primary, "duration")
            THEN [MediaDuration |-> primary.duration] ELSE <<>>
        fileName ==
            IF primary.kind = "file" /\ Has(primary, "fileName")
                  /\ primary.fileName # ""
            THEN [MediaFileName |-> primary.fileName] ELSE <<>>
        fileSize ==
            IF primary.kind = "file" /\ Has(primary, "fileSize")
            THEN [MediaFileSize |-> primary.fileSize] ELSE <<>>
    IN  baseFields @@ duration @@ fileName @@ fileSize

InitMonitor ==
    /\ runtimeState =
          recordChannelRuntimeState([k \in StateKeys |-> DefaultRuntime],
              PLUGIN_ID, accountId, [running |-> TRUE, lastStartAt |-> <<now>>])
    /\ ev = [e \in Events |-> WaitingEvent]
    /\ log = [e \in Events |-> <<>>]
    /\ posts = [e \in Events |-> <<>>]
    /\ client = [conn |-> "connecting", disconnects |-> 0, listener |-> TRUE,
                 aborted |-> FALSE, stops |-> 0, unhandled |-> 0]

\* a stream that hands its events over in any order
ArrivesBefore_Unordered(f, e) == FALSE

\* the stream delivers e1 before e2
ArrivesBefore(f, e) == f = "e1" /\ e = "e2"

\* one step of an event's pipeline: its new record, the outside calls it
\* makes, the POSTs it starts and the runtime-state updates it records
Step(e, newEv, calls, newPosts, states) ==
    /\ ev' = [ev EXCEPT ![e] = newEv]
    /\ log' = [log EXCEPT ![e] = @ \o calls]
    /\ posts' = [posts EXCEPT ![e] = @ \o newPosts]
    /\ runtimeState' = recordAll(runtimeState, states)

\* the marker of one item: <media:kind>, with duration=Ns for an audio or a
\* video whose duration is truthy and name="..." for a file whose fileName is
\* truthy
mediaMarker(item) ==
    LET extra ==
          CASE item.kind \in {"audio", "video"} /\ Has(item, "duration")
                   /\ item.duration # 0 ->
                 <<" duration=", ToString(item.duration), "s">>
            [] item.kind = "file" /\ Has(item, "fileName") /\ item.fileName # "" ->
                 <<" name=\"", item.fileName, "\"">>
            [] OTHER -> <<>>
    IN  <<"<media:", item.kind>> \o extra \o <<">">>

\* generateMediaPlaceholder: the markers of the items, joined by spaces
RECURSIVE generateMediaPlaceholder(_)
generateMediaPlaceholder(items) ==
    IF items = <<>> THEN <<>>
    ELSE IF Len(items) = 1 THEN mediaMarker(items[1])
    ELSE mediaMarker(items[1]) \o <<" ">> \o generateMediaPlaceholder(Tail(items))

\* a body that prefers the placeholder of the media to the text
buildMessageBody_PlaceholderFirst(d, media) ==
    LET textContent == IF d.text = UndefinedText THEN <<>> ELSE Trim(d.text)
        mediaPlaceholder == generateMediaPlaceholder(media)
    IN  [textContent |-> textContent,
         rawBody |-> IF mediaPlaceholder # <<>> THEN mediaPlaceholder
                     ELSE textContent]

\* buildMessageBody: the trimmed text of the message, or the placeholder of
\* its media when it has no text
buildMessageBody(d, media) ==
    LET textContent == IF d.text = UndefinedText THEN <<>> ELSE Trim(d.text)
        mediaPlaceholder == generateMediaPlaceholder(media)
    IN  [textContent |-> textContent,
         rawBody |-> IF textContent # <<>> THEN textContent ELSE mediaPlaceholder]

\* ---------------------------------------------------------------------
\* the inbound context of a message

\* most items of one media context
MaxItems == 2

\* media items: a picture, an item whose content type is the empty string, an
\* audio with a duration, a video whose duration is 0, a video without one,
\* a file with a name and a size, and a file whose name is empty
ContextItems ==
    {[kind |-> "picture", path |-> "p1", contentType |-> "image/png"],
     [kind |-> "picture", path |-> "p2", contentType |-> ""],
     [kind |-> "audio", path |-> "p3", contentType |-> "audio/amr", duration |-> 2],
     [kind |-> "video", path |-> "p4", contentType |-> "video/mp4", duration |-> 0],
     [kind |-> "video", path |-> "p5", contentType |-> "video/mp4"],
     [kind |-> "file", path |-> "p6", contentType |-> "application/pdf",
      fileName |-> "f.pdf", fileSize |-> 3],
     [kind |-> "file", path |-> "p7", contentType |-> "application/pdf",
      fileName |-> ""]}

\* media contexts: absent, without items, and with items, the primary left
\* out or set (to the last item)
MediaContexts ==
    {NoMedia}
      \cup {[items |-> items] : items \in SeqsUpTo(ContextItems, MaxItems)}
      \cup {[items |-> items, primary |-> items[Len(items)]] :
               items \in SeqsUpTo(ContextItems, MaxItems) \ {<<>>}}

\* data.text.content: absent, blank, plain and padded
ContextTexts == {UndefinedText, <<" ">>, <<"a">>, <<" ", "a", " ">>}

\* a message and the media context its handler returned
ContextInputs ==
    [data : [senderStaffId : {"u1", "u2"}, senderNick : {"Ann"},
             conversationType : {"1", "2"}, text : ContextTexts],
     media : MediaContexts]

\* the messages the first one is compared with: another name or none,
\* another text, no media
ContextInputsAfter ==
    [data : [senderStaffId : {"u1", "u2"}, senderNick : {"Bob", ""},
             conversationType : {"1", "2"}, text : {<<"a">>}],
     media : {NoMedia}]

\* a sender info whose addresses are built from the name of the sender
buildSenderInfo_ByName(d) ==
    [senderId |-> d.senderStaffId,
     senderName |-> d.senderNick,
     chatId |-> d.senderStaffId,
     fromAddress |-> <<PLUGIN_ID, ":", d.senderNick>>,
     toAddress |-> <<PLUGIN_ID, ":", d.senderNick>>,
     label |-> IF d.senderNick # "" THEN d.senderNick ELSE d.senderStaffId]

\* buildSenderInfo: the chat of a sender is the sender, and both addresses
\* are `${PLUGIN_ID}:${senderId}`
buildSenderInfo(d) ==
    [senderId |-> d.senderStaffId,
     senderName |-> d.senderNick,
     chatId |-> d.senderStaffId,
     fromAddress |-> <<PLUGIN_ID, ":", d.senderStaffId>>,
     toAddress |-> <<PLUGIN_ID, ":", d.senderStaffId>>,
     label |-> IF d.senderNick # "" THEN d.senderNick ELSE d.senderStaffId]

\* buildInboundContext: the object handed to finalizeInboundContext, the
\* base context with the media fields spread over it (Body and SessionKey
\* are the host's, and the fields copied from the message are left out)
buildInboundContext(d, sender, rawBody, media) ==
    LET baseContext ==
          [RawBody |-> rawBody,
           CommandBody |-> rawBody,
           From |-> sender.fromAddress,
           To |-> sender.toAddress,
           AccountId |-> accountId,
           ChatType |-> "direct",
           ConversationLabel |-> sender.label,
           SenderId |-> sender.senderId,
           SenderName |-> sender.senderName,
           Provider |-> PLUGIN_ID,
           Surface |-> PLUGIN_ID,
           OriginatingChannel |-> PLUGIN_ID,
           OriginatingTo |-> sender.toAddress,
           CommandAuthorized |-> isSenderAllowed(allowFrom, sender.senderId)]
        mediaFields == buildMediaContextFields(media)
    IN  mediaFields @@ baseContext

\* processMessageAsync up to the dispatch: sender, body and context
contextOf(input) ==
    LET sender == buildSenderInfo(input.data)
        body == buildMessageBody(input.data, itemsOf(input.media))
    IN  buildInboundContext(input.data, sender, body.rawBody, input.media)

InitContext ==
    /\ context \in [ran : {FALSE}, a : ContextInputs, b : ContextInputsAfter,
                    ctxA : {<<>>}, ctxB : {<<>>}]
    /\ data = NoMessage
    /\ classified = NotRun
    /\ request = NoRequest
    /\ resolved = NotResolved
    /\ outbound = NoSend

\* the contexts of the two messages are built
BuildContext ==
    /\ ~context.ran
    /\ context' = [context EXCEPT !.ran = TRUE,
                                  !.ctxA = contextOf(context.a),
                                  !.ctxB = contextOf(context.b)]
    /\ UNCHANGED <<data, classified, request, resolved, outbound, tokenVars, monitorVars>>

NextContext == BuildContext

\* ---------------------------------------------------------------------
\* outbound.sendMedia

\* the `text` of a sendMedia call: absent, empty, blank and plain
SendTexts == {UndefinedText, <<>>, <<" ">>, <<"a">>}
\* its `mediaUrl`: absent, empty, a URL and a local path
SendMediaUrls == {Undefined, "", "https://x/i.png", "/tmp/i.png"}

\* what the upload request can come to: the token cannot be had, fetch
\* rejects, and the answers of the server (errcode 0 with a media_id,
\* errcode 0 without one, another errcode)
UploadResponses == {"token", "network", "ok", "noMediaId", "errcode"}
\* what batchSendOTOWithOptions can come to
SendResponses == {"token", "network", "ok"}

ErrLoad == "load failed"
ErrUpload == "upload failed: errmsg"
\* the label in front of the link in the fallback text
LinkLabel == "image: "

\* text?.trim() as a condition
HasText(text) == text # UndefinedText /\ Trim(text) # <<>>

\* the fallback text: the text (when truthy), a blank line, label and link
fallbackText(text, mediaUrl) ==
    IF text # UndefinedText /\ text # <<>>
    THEN text \o <<"\n\n", LinkLabel, mediaUrl>>
    ELSE <<LinkLabel, mediaUrl>>

\* the request sendTextMessage makes (markdown by default)
textMessage(content) == [msgKey |-> "sampleMarkdown", msgParam |-> content]
\* the request sendImageMessage makes
imageMessage(photoURL) == [msgKey |-> "sampleImageMsg", msgParam |-> photoURL]

\* uploadMedia: the URL built from the media_id, or the error thrown
uploadMedia(resp) ==
    CASE resp = "ok" -> [thrown |-> Undefined, url |-> <<"downloadFile", "m1">>]
      [] resp = "token" -> [thrown |-> ErrTokenEmpty, url |-> <<>>]
      [] resp = "network" -> [thrown |-> ErrNetwork, url |-> <<>>]
      [] OTHER -> [thrown |-> ErrUpload, url |-> <<>>]

\* what a failed send throws
sendThrows(resp) ==
    CASE resp = "ok" -> Undefined
      [] resp = "token" -> ErrTokenEmpty
      [] OTHER -> ErrNetwork

InitSend ==
    /\ outbound \in [st : {"called"}, text : SendTexts, mediaUrl : SendMediaUrls,
                     photoURL : {<<>>}, sent : {<<>>}, caught : {<<>>},
                     result : {Undefined}]
    /\ data = NoMessage
    /\ classified = NotRun
    /\ request = NoRequest
    /\ resolved = NotResolved
    /\ context = NoContext

SendUnchanged ==
    UNCHANGED <<data, classified, request, resolved, context, tokenVars, monitorVars>>

\* the catch block of sendMedia: the error is logged and the fallback text
\* is sent
catchSend(o, err) == [o EXCEPT !.st = "fallback", !.caught = Append(@, err)]

\* sendMedia is entered: with a media URL the media is loaded, without one
\* the text is sent
SendMedia ==
    /\ outbound.st = "called"
    /\ outbound' = [outbound EXCEPT
                       !.st = IF Truthy(outbound.mediaUrl) THEN "load" ELSE "plain"]
    /\ SendUnchanged

\* loadWebMedia returns the media or throws
LoadReturn(ok) ==
    /\ outbound.st = "load"
    /\ outbound' = IF ok THEN [outbound EXCEPT !.st = "upload"]
                   ELSE catchSend(outbound, ErrLoad)
    /\ SendUnchanged

\* uploadMedia returns the URL of the upload or throws
UploadReturn(resp) ==
    /\ outbound.st = "upload"
    /\ LET uploadResult == uploadMedia(resp)
       IN  outbound' =
             IF uploadResult.thrown = Undefined
             THEN [outbound EXCEPT !.st = "image", !.photoURL = uploadResult.url]
             ELSE catchSend(outbound, uploadResult.thrown)
    /\ SendUnchanged

\* sendImageMessage returns: the image is sent, and the text after it when
\* there is one; or it throws
ImageReturn(resp) ==
    /\ outbound.st = "image"
    /\ outbound' =
          IF sendThrows(resp) # Undefined
          THEN catchSend(outbound, sendThrows(resp))
          ELSE LET sent == Append(outbound.sent, imageMessage(outbound.photoURL))
               IN  IF HasText(outbound.text)
                   THEN [outbound EXCEPT !.st = "text", !.sent = sent]
                   ELSE [outbound EXCEPT !.st = "done", !.sent = sent,
                                         !.result = "imageResult"]
    /\ SendUnchanged

\* the sendTextMessage after the image returns or throws (inside the try)
TextReturn(resp) ==
    /\ outbound.st = "text"
    /\ outbound' =
          IF sendThrows(resp) # Undefined
          THEN catchSend(outbound, sendThrows(resp))
          ELSE [outbound EXCEPT !.st = "done",
                                !.sent = Append(@, textMessage(outbound.text)),
                                !.result = "imageResult"]
    /\ SendUnchanged

\* the sendTextMessage of the catch block returns, or throws out of sendMedia
FallbackReturn(resp) ==
    /\ outbound.st = "fallback"
    /\ outbound' =
          IF sendThrows(resp) # Undefined
          THEN [outbound EXCEPT !.st = "done", !.result = "thrown"]
          ELSE [outbound EXCEPT
                  !.st = "done",
                  !.sent = Append(@, textMessage(
                              fallbackText(outbound.text, outbound.mediaUrl))),
                  !.result = "textResult"]
    /\ SendUnchanged

\* without a media URL: sendTextMessage(to, text ?? "") returns or throws
PlainReturn(resp) ==
    /\ outbound.st = "plain"
    /\ outbound' =
          IF sendThrows(resp) # Undefined
          THEN [outbound EXCEPT !.st = "done", !.result = "thrown"]
          ELSE [outbound EXCEPT
                  !.st = "done",
                  !.sent = Append(@, textMessage(
                              IF outbound.text = UndefinedText THEN <<>>
                              ELSE outbound.text)),
                  !.result = "textResult"]
    /\ SendUnchanged

NextSend ==
    \/ SendMedia
    \/ \E ok \in BOOLEAN : LoadReturn(ok)
    \/ \E resp \in UploadResponses : UploadReturn(resp)
    \/ \E resp \in SendResponses :
          \/ ImageReturn(resp)
          \/ TextReturn(resp)
          \/ FallbackReturn(resp)
          \/ PlainReturn(resp)

\* processMessageAsync up to its await: the context is built and handed to
\* dispatchReplyWithBufferedBlockDispatcher
dispatching(r, h, media) ==
    LET d == dataAfterHandle(h, r.data)
    IN  [r EXCEPT !.st = "dispatching", !.data = d, !.media = media,
                  !.dispatches = @ + 1,
                  !.rawBody = buildMessageBody(d, media).rawBody]

\* a failure reply that names the kind but not the underlying error
handleFailed_Generic(r, err) ==
    LET message == <<FailedPrefix(r.handler), "">>
        sent == replyError(r.data.sessionWebhook, message)
    IN  [rec |-> [r EXCEPT !.st = IF sent = <<>> THEN "done" ELSE "errorPosting",
                           !.outcome = "handleFailed"],
         posts |-> sent]

\* a failure result that still carries the items downloaded so far
handleFailed_Partial(r, err) ==
    LET message == <<FailedPrefix(r.handler), err>>
        sent == replyError(r.data.sessionWebhook, message)
    IN  [rec |-> [r EXCEPT !.st = IF sent = <<>> THEN "done" ELSE "errorPosting",
                           !.outcome = "handleFailed", !.media = r.items],
         posts |-> sent]

\* handle returned { success: false, errorMessage }: replyError, and the end
handleFailed(r, err) ==
    LET message == <<FailedPrefix(r.handler), err>>
        sent == replyError(r.data.sessionWebhook, message)
    IN  [rec |-> [r EXCEPT !.st = IF sent = <<>> THEN "done" ELSE "errorPosting",
                           !.outcome = "handleFailed"],
         posts |-> sent]

\* a start of the download that does not wait for the acknowledgement: the
\* outside call of handle goes out ahead of the calls of the callback
BeginDownload_Early(e, r, calls, states) ==
    /\ GetAccessTokenStep(e, clientId)
    /\ UNCHANGED tokenCacheMap
    /\ IF isCacheValid(tokenCacheMap[clientId], now)
       THEN Step(e, [r EXCEPT !.st = "fileDownload"], <<"fileDownload">> \o calls,
                 <<>>, states)
       ELSE Step(e, [r EXCEPT !.st = "exchange"], <<"oauth">> \o calls, <<>>, states)

\* downloadAndSaveMedia begins: getFileDownloadUrl calls getAccessToken, which
\* answers from the cache and goes on to the download-URL call, or starts the
\* credential exchange
BeginDownload(e, r, calls, states) ==
    /\ GetAccessTokenStep(e, clientId)
    /\ UNCHANGED tokenCacheMap
    /\ IF isCacheValid(tokenCacheMap[clientId], now)
       THEN Step(e, [r EXCEPT !.st = "fileDownload"], calls \o <<"fileDownload">>,
                 <<>>, states)
       ELSE Step(e, [r EXCEPT !.st = "exchange"], calls \o <<"oauth">>, <<>>, states)

\* a catch block that acknowledges but records nothing
catchBlock_Unrecorded(err) ==
    [calls |-> <<"ack:FAILURE">>, states |-> <<>>]

\* the catch block of handleMessage: the error is recorded as lastError and
\* the event is acknowledged with FAILURE
catchBlock(err) ==
    [calls |-> <<"ack:FAILURE">>, states |-> <<[lastError |-> err]>>]

\* the callback registered for TOPIC_ROBOT, with the part of handler.handle
\* that runs before its first await
HandleMessage(e, raw) ==
    /\ ev[e].st = "waiting"
    /\ client.conn = "open"
    /\ \A f \in Events : ArrivesBefore(f, e) => ev[f].st # "waiting"
    /\ LET d == raw.data
           handler == getMessageHandler(d)
           r == [ev[e] EXCEPT !.data = d, !.decoded = raw.decodes, !.received = d]
           inbound == [lastInboundAt |-> <<now>>]
       IN  IF ~raw.decodes
           THEN /\ Step(e, [r EXCEPT !.st = "done", !.outcome = "decodeFailed"],
                        catchBlock(ErrJsonParse).calls, <<>>,
                        catchBlock(ErrJsonParse).states)
                /\ UNCHANGED <<call, tokenCacheMap>>
           ELSE IF d.conversationType = "2"
           THEN /\ Step(e, [r EXCEPT !.st = "done", !.outcome = "groupIgnored"],
                        <<"ack:SUCCESS">>, <<>>, <<>>)
                /\ UNCHANGED <<call, tokenCacheMap>>
           ELSE IF getPreviewThrows(handler, d)
           THEN /\ Step(e, [r EXCEPT !.st = "done", !.outcome = "previewThrew",
                                     !.handler = handler],
                        catchBlock(ErrTypeError).calls, <<>>,
                        catchBlock(ErrTypeError).states)
                /\ UNCHANGED <<call, tokenCacheMap>>
           ELSE IF validateThrows(handler, d)
           THEN /\ Step(e, [r EXCEPT !.st = "done", !.outcome = "validateThrew",
                                     !.handler = handler],
                        <<"ack:SUCCESS">> \o catchBlock(ErrTypeError).calls, <<>>,
                        <<inbound>> \o catchBlock(ErrTypeError).states)
                /\ UNCHANGED <<call, tokenCacheMap>>
           ELSE LET validation == validate(handler, d)
                    v == [r EXCEPT !.handler = handler, !.validation = validation]
                    sent == replyError(d.sessionWebhook, <<validation.errorMessage>>)
                    codes == downloadCodes(handler, d)
                    h == [v EXCEPT !.handleCalls = @ + 1, !.codes = codes]
                IN  IF ~validation.valid
                    THEN /\ Step(e, [v EXCEPT !.st = IF sent = <<>> THEN "done"
                                                     ELSE "errorPosting",
                                              !.outcome = "invalid"],
                                 <<"ack:SUCCESS">> \o [i \in 1..Len(sent) |-> "post"],
                                 sent, <<inbound>>)
                         /\ UNCHANGED <<call, tokenCacheMap>>
                    ELSE IF handler = "unsupported"
                    THEN /\ Step(e, [h EXCEPT !.st = "done",
                                              !.outcome = "handleFailed"],
                                 <<"ack:SUCCESS">>, <<>>, <<inbound>>)
                         /\ UNCHANGED <<call, tokenCacheMap>>
                    ELSE IF codes = <<>>
                    THEN /\ Step(e, dispatching(h, handler, <<>>),
                                 <<"ack:SUCCESS", "dispatch">>, <<>>, <<inbound>>)
                         /\ UNCHANGED <<call, tokenCacheMap>>
                    ELSE BeginDownload(e, h, <<"ack:SUCCESS">>, <<inbound>>)
    /\ UNCHANGED <<now, client, classifyVars>>


\* a pipeline in which nothing catches a rejected host dispatch
catchOf_NoDispatchCatch(site) ==
    CASE site = "handle" -> "handle.catch"
      [] site = "dispatch" -> "unhandled"
      [] site = "errorPost" -> "replyError.catch"
      [] site = "deliver" -> "host"

\* where an exception raised at a site of the pipeline ends: the catch of
\* the handler's handle, the catch of processMessageAsync, the catch on the
\* promise of replyError, or the host that called deliver; each catch of
\* the plugin writes a line to the error log
catchOf(site) ==
    CASE site = "handle" -> "handle.catch"
      [] site = "dispatch" -> "processMessageAsync.catch"
      [] site = "errorPost" -> "replyError.catch"
      [] site = "deliver" -> "host"

\* the event record after an exception raised at site was caught
caughtAt(r, site) == [r EXCEPT !.caught = @ \cup {catchOf(site)}]

\* a download step of handle failed with err: the handler's catch builds the
\* failure result and the then-callback replies with it
DownloadFails(e, err) ==
    LET f == handleFailed(caughtAt(ev[e], "handle"), err)
    IN  Step(e, f.rec, [i \in 1..Len(f.posts) |-> "post"], f.posts, <<>>)

\* the credential exchange started for an event's download comes back
TokenExchangeReturn(e, resp) ==
    /\ ev[e].st = "exchange"
    /\ ExchangeReturnStep(e, resp)
    /\ IF resp.kind = "token"
       THEN Step(e, [ev[e] EXCEPT !.st = "fileDownload"], <<"fileDownload">>,
                 <<>>, <<>>)
       ELSE DownloadFails(e, IF resp.kind = "empty" THEN ErrTokenEmpty
                             ELSE ErrNetwork)
    /\ UNCHANGED <<now, client, classifyVars>>

\* a download that fetches whatever the download-link call answered
FileDownloadReturn_Blind(e, answer) ==
    /\ ev[e].st = "fileDownload"
    /\ CASE answer \in {"url", "empty"} ->
              Step(e, [ev[e] EXCEPT !.st = "fetch"], <<"fetch">>, <<>>, <<>>)
         [] OTHER -> DownloadFails(e, ErrNetwork)
    /\ UNCHANGED <<now, client, classifyVars, tokenCacheMap, call>>

\* robotMessageFileDownloadWithOptions comes back: with a downloadUrl, with
\* none, or with an error
FileDownloadReturn(e, answer) ==
    /\ ev[e].st = "fileDownload"
    /\ CASE answer = "url" ->
              Step(e, [ev[e] EXCEPT !.st = "fetch"], <<"fetch">>, <<>>, <<>>)
         [] answer = "empty" -> DownloadFails(e, ErrNoUrl)
         [] OTHER -> DownloadFails(e, ErrNetwork)
    /\ UNCHANGED <<now, client, classifyVars, tokenCacheMap, call>>

\* downloadFromUrl: fetch(url) comes back ok with the bytes, not ok, or fails
FetchReturn(e, answer, size) ==
    /\ ev[e].st = "fetch"
    /\ CASE answer = "ok" ->
              Step(e, [ev[e] EXCEPT !.st = "save", !.buffer = size], <<"save">>,
                   <<>>, <<>>)
         [] answer = "notOk" -> DownloadFails(e, ErrFetchStatus)
         [] OTHER -> DownloadFails(e, ErrNetwork)
    /\ UNCHANGED <<now, client, classifyVars, tokenCacheMap, call>>

\* saveMediaBuffer comes back with the path of the file it wrote (named here
\* after the download code whose content it holds); the item is pushed, and
\* handle goes on to the next picture or returns its media to
\* processMessageAsync
SaveReturn(e, ok) ==
    /\ ev[e].st = "save"
    /\ LET r == ev[e]
           k == Len(r.items) + 1
           item == [kind |-> mediaKindOf(r.handler),
                    path |-> <<"inbound", e, r.codes[k]>>,
                    contentType |-> SavedContentType, fileSize |-> r.buffer]
           pushed == [r EXCEPT !.items = Append(@, item), !.buffer = 0]
       IN  IF ~ok
           THEN DownloadFails(e, ErrSave) /\ UNCHANGED <<tokenCacheMap, call>>
           ELSE IF k < Len(r.codes)
           THEN BeginDownload(e, pushed, <<>>, <<>>)
           ELSE /\ Step(e, dispatching(pushed, r.handler, pushed.items),
                        <<"dispatch">>, <<>>, <<>>)
                /\ UNCHANGED <<tokenCacheMap, call>>
    /\ UNCHANGED <<now, client, classifyVars>>

\* the host calls dispatcherOptions.deliver(payload)
HostDeliver(e, replyText) ==
    /\ ev[e].st = "dispatching"
    /\ ev[e].delivers < MaxDelivers
    /\ LET r == [ev[e] EXCEPT !.delivers = @ + 1, !.reply = replyText]
           webhook == r.data.sessionWebhook
       IN  IF replyText = <<>>
           THEN Step(e, r, <<>>, <<>>, <<>>)
           ELSE IF Truthy(webhook)
           THEN Step(e, [r EXCEPT !.st = "posting"], <<"post">>,
                     <<webhookPost(webhook, replyText, "deliver")>>, <<>>)
           ELSE Step(e, r, <<>>, <<>>, <<[lastOutboundAt |-> <<now>>]>>)
    /\ UNCHANGED <<now, client, classifyVars, tokenCacheMap, call>>

\* the last POST of an event, with its status set
settled(e, status) ==
    [posts EXCEPT ![e][Len(posts[e])].status = status]

\* a deliver that takes any answer of the webhook for a success
deliverThrows_Lenient(status) ==
    CASE status = "failed" -> ErrNetwork
      [] OTHER -> Undefined

\* what deliver throws once its POST came back: nothing on errcode 0, its
\* own error on another errcode, the error of fetch when the POST failed
deliverThrows(status) ==
    CASE status = "ok" -> Undefined
      [] status = "rejected" -> ErrReplyFailed
      [] status = "failed" -> ErrNetwork

\* the POST of deliver comes back: errcode 0, another errcode (deliver
\* throws), or the fetch itself fails (deliver rejects)
PostReturn(e, status) ==
    /\ ev[e].st = "posting"
    /\ ev' = [ev EXCEPT ![e] =
                 [(IF deliverThrows(status) = Undefined THEN @
                   ELSE caughtAt(@, "deliver"))
                    EXCEPT !.st = "dispatching", !.thrown = deliverThrows(status)]]
    /\ posts' = settled(e, status)
    /\ runtimeState' =
          IF deliverThrows(status) = Undefined
          THEN recordAll(runtimeState, <<[lastOutboundAt |-> <<now>>]>>)
          ELSE runtimeState
    /\ UNCHANGED <<log, now, client, classifyVars, tokenCacheMap, call>>

\* a host that answers a dispatch only once every other event is finished
HostReturn_AfterOthers(e, ok) ==
    /\ ev[e].st = "dispatching"
    /\ \A f \in Events \ {e} : ev[f].st = "done"
    /\ Step(e, [ev[e] EXCEPT !.st = "done", !.outcome = "processed"],
            <<>>, <<>>, <<>>)
    /\ UNCHANGED <<now, client, classifyVars, tokenCacheMap, call>>

\* dispatchReplyWithBufferedBlockDispatcher resolves, or throws into the
\* catch of processMessageAsync
HostReturn(e, ok) ==
    /\ ev[e].st = "dispatching"
    /\ IF ok
       THEN Step(e, [ev[e] EXCEPT !.st = "done", !.outcome = "processed"],
                 <<>>, <<>>, <<>>)
       ELSE Step(e, [caughtAt(ev[e], "dispatch") EXCEPT
                        !.st = "done", !.outcome = "dispatchFailed"],
                 <<>>, <<>>, <<[lastError |-> ErrHost]>>)
    /\ UNCHANGED <<now, client, classifyVars, tokenCacheMap, call>>

\* the POST of replyError comes back; its catch only logs
ErrorPostReturn(e, status) ==
    /\ ev[e].st = "errorPosting"
    /\ ev' = [ev EXCEPT ![e] =
                 [(IF status = "failed" THEN caughtAt(@, "errorPost") ELSE @)
                    EXCEPT !.st = "done"]]
    /\ posts' = settled(e, status)
    /\ UNCHANGED <<log, runtimeState, now, client, classifyVars, tokenCacheMap, call>>

PostStatuses == {"ok", "rejected", "failed"}
\* what the exchange answers while the monitor runs: the usual lifetime
MonitorResponses == {resp \in Responses : resp.expireIn = <<>>}
\* the smaller set of payloads: undecodable text, and valid text and picture
\* messages with a reply address; these are the payloads of the second event
\* and the ones delivered while the connection events are explored
LifecyclePayloads ==
    {raw \in RawPayloads :
        \/ ~raw.decodes
        \/ /\ raw.data.msgtype \in {"text", "picture"}
           /\ raw.data.conversationType = "1"
           /\ raw.data.sessionWebhook # Undefined
           /\ validate(raw.data.msgtype, raw.data).valid}

\* every step of the pipeline of event e, for the payloads in raws
Pipeline(e, raws) ==
    \/ \E raw \in raws : HandleMessage(e, raw)
    \/ \E resp \in MonitorResponses : TokenExchangeReturn(e, resp)
    \/ \E answer \in {"url", "empty", "throw"} : FileDownloadReturn(e, answer)
    \/ \E answer \in {"ok", "notOk", "throw"}, size \in BufferSizes :
          FetchReturn(e, answer, size)
    \/ \E ok \in BOOLEAN : SaveReturn(e, ok)
    \/ \E replyText \in ReplyTexts : HostDeliver(e, replyText)
    \/ \E status \in PostStatuses : PostReturn(e, status)
    \/ \E ok \in BOOLEAN : HostReturn(e, ok)
    \/ \E status \in PostStatuses : ErrorPostReturn(e, status)

\* --------------------------------------------------------------- lifecycle
\* stopHandler: disconnect, then the stopped state is recorded
stopHandler(c) == [c EXCEPT !.disconnects = @ + 1]

StopStates == <<[running |-> FALSE, lastStopAt |-> <<now>>]>>

\* a stop() that also ends the pipelines in flight
Stop_Cancelling ==
    /\ client.stops < MaxStops
    /\ client' = [stopHandler(client) EXCEPT !.stops = @ + 1, !.listener = FALSE]
    /\ runtimeState' = recordAll(runtimeState, StopStates)
    /\ ev' = [e \in Events |->
                 IF ev[e].st \in {"waiting", "done"} THEN ev[e]
                 ELSE [ev[e] EXCEPT !.st = "done", !.outcome = "cancelled"]]
    /\ UNCHANGED <<log, posts, now, classifyVars, tokenCacheMap, call>>

\* MonitorResult.stop(): stopHandler(), then the abort listener is removed
Stop ==
    /\ client.stops < MaxStops
    /\ client' = [stopHandler(client) EXCEPT !.stops = @ + 1, !.listener = FALSE]
    /\ runtimeState' = recordAll(runtimeState, StopStates)
    /\ UNCHANGED <<ev, log, posts, now, classifyVars, tokenCacheMap, call>>

\* the abort signal fires: stopHandler runs if it is still registered
Abort ==
    /\ ~client.aborted
    /\ IF client.listener
       THEN /\ client' = [stopHandler(client) EXCEPT !.aborted = TRUE]
            /\ runtimeState' = recordAll(runtimeState, StopStates)
       ELSE /\ client' = [client EXCEPT !.aborted = TRUE]
            /\ UNCHANGED runtimeState
    /\ UNCHANGED <<ev, log, posts, now, classifyVars, tokenCacheMap, call>>

\* client.on("open"): a log line
ConnOpen ==
    /\ client.conn = "connecting"
    /\ client' = [client EXCEPT !.conn = "open"]
    /\ UNCHANGED <<runtimeState, ev, log, posts, now, classifyVars,
                   tokenCacheMap, call>>

\* client.on("close")
ConnClose ==
    /\ client.conn = "open"
    /\ client' = [client EXCEPT !.conn = "closed"]
    /\ runtimeState' = recordAll(runtimeState,
                           <<[running |-> FALSE, lastStopAt |-> <<now>>]>>)
    /\ UNCHANGED <<ev, log, posts, now, classifyVars, tokenCacheMap, call>>

\* client.on("error")
ConnError ==
    /\ client.conn = "open"
    /\ runtimeState' = recordAll(runtimeState, <<[lastError |-> ErrSocket]>>)
    /\ UNCHANGED <<client, ev, log, posts, now, classifyVars, tokenCacheMap, call>>

\* client.connect() as the library has it: the rejection reaches no handler
ConnectFails_Unwrapped ==
    /\ client.conn = "connecting"
    /\ client' = [client EXCEPT !.conn = "closed", !.unhandled = @ + 1]
    /\ UNCHANGED <<runtimeState, ev, log, posts, now, classifyVars,
                   tokenCacheMap, call>>

\* the wrapped client.connect(): a rejected connect is caught and recorded
ConnectFails ==
    /\ client.conn = "connecting"
    /\ client' = [client EXCEPT !.conn = "closed"]
    /\ runtimeState' = recordAll(runtimeState,
                           <<[running |-> FALSE, lastStopAt |-> <<now>>,
                              lastError |-> ErrConnect]>>)
    /\ UNCHANGED <<ev, log, posts, now, classifyVars, tokenCacheMap, call>>

\* DWClient reconnects on its own after a close, unless disconnect() was called
Reconnect ==
    /\ client.conn = "closed"
    /\ client.disconnects = 0
    /\ client' = [client EXCEPT !.conn = "connecting"]
    /\ UNCHANGED <<runtimeState, ev, log, posts, now, classifyVars,
                   tokenCacheMap, call>>

\* the clock moves while the monitor runs
MonitorTick(d) ==
    /\ now + d <= MaxTicks * 60000
    /\ now' = now + d
    /\ UNCHANGED <<tokenCacheMap, call, classifyVars, monitorVars>>

MonitorInit ==
    /\ now = 0
    /\ tokenCacheMap = [id \in Identities |-> NoEntry]
    /\ call = [e \in Events |-> IdleCall]
    /\ InitMonitor
    /\ IdleClassify

\* two events and their pipelines on an open connection: the first carries
\* any payload, the one after it a payload of the smaller set
Next ==
    \/ ConnOpen
    \/ Pipeline("e1", RawPayloads)
    \/ Pipeline("e2", LifecyclePayloads)

\* one event, with the connection events, stop and abort, and a moving clock
NextLifecycle ==
    \/ ConnOpen
    \/ ConnClose
    \/ ConnError
    \/ ConnectFails
    \/ Reconnect
    \/ Stop
    \/ Abort
    \/ \E d \in ClockSteps : MonitorTick(d)
    \/ Pipeline("e1", LifecyclePayloads)

\* ---------------------------------------------------------- specifications
\* the token cache under concurrent callers and a moving clock
TokenInit == InitToken /\ IdleClassify /\ InitMonitor
SpecToken == TokenInit /\ [][NextToken]_vars

\* the classifier and the validate functions over the message space
ClassifyInit == InitClassify /\ InitToken /\ InitMonitor
SpecClassify == ClassifyInit /\ [][NextClassify]_vars

\* parseRichTextContent over the rich-text lists
ParseInit == InitParse /\ InitToken /\ InitMonitor
SpecParse == ParseInit /\ [][NextParse]_vars

\* the inbound context as a function of the message and its media
ContextInit == InitContext /\ InitToken /\ InitMonitor
SpecContext == ContextInit /\ [][NextContext]_vars

\* one sendMedia call and the requests it makes
SendInit == InitSend /\ InitToken /\ InitMonitor
SpecSend == SendInit /\ [][NextSend]_vars

\* resolveTarget over the targets, allow lists and modes
TargetInit ==
    /\ data = NoMessage
    /\ classified = NotRun
    /\ InitTarget
    /\ InitToken
    /\ InitMonitor
SpecTarget == TargetInit /\ [][NextTarget]_vars

\* the session monitor: two events and their pipelines
Spec == MonitorInit /\ [][Next]_vars

\* the calls of event e's pipeline that are waiting for an answer: each
\* outside call (network, host) comes back, with a result or a failure
Returns(e) ==
    \/ \E resp \in MonitorResponses : TokenExchangeReturn(e, resp)
    \/ \E answer \in {"url", "empty", "throw"} : FileDownloadReturn(e, answer)
    \/ \E answer \in {"ok", "notOk", "throw"}, size \in BufferSizes :
          FetchReturn(e, answer, size)
    \/ \E ok \in BOOLEAN : SaveReturn(e, ok)
    \/ \E status \in PostStatuses : PostReturn(e, status)
    \/ \E ok \in BOOLEAN : HostReturn(e, ok)
    \/ \E status \in PostStatuses : ErrorPostReturn(e, status)

\* the payloads of the first event when progress is explored: undecodable
\* text and the text, picture and richText messages, valid and invalid,
\* with and without a reply address
FairPayloads ==
    {raw \in RawPayloads :
        \/ ~raw.decodes
        \/ /\ raw.data.msgtype \in {"text", "picture", "richText"}
           /\ raw.data.conversationType = "1"}

\* the payloads of the second event when progress is explored: a valid
\* picture message, whose download uses the token cache the first event uses
FairPayloadsAfter == {raw \in LifecyclePayloads : raw.data.msgtype = "picture"}

NextFair ==
    \/ ConnOpen
    \/ Pipeline("e1", FairPayloads)
    \/ Pipeline("e2", FairPayloadsAfter)

\* the session monitor when every outside call eventually returns or fails
SpecFair ==
    /\ MonitorInit
    /\ [][NextFair]_vars
    /\ \A e \in Events : WF_vars(Returns(e))

\* the session monitor with its connection, stop() and the abort signal
SpecLifecycle == MonitorInit /\ [][NextLifecycle]_vars

\* ------------------------------------------------------------------ claims
\* an entry whose expireTime is more than 5 minutes after t
Fresh(entry, t) == entry # NoEntry /\ entry.expireTime - t > 5 * 60 * 1000

\* C5: getAccessToken for an identity whose cached entry expires more than
\* 5 minutes after the current time starts no exchange, returns the cached
\* token and leaves the cache as it is.
C5_FreshEntryNoExchange ==
    [][\A c \in Callers, id \in Identities :
          (GetAccessToken(c, id) /\ Fresh(tokenCacheMap[id], now)) =>
              /\ call'[c].st = "returned"
              /\ call'[c].exchanges = 0
              /\ call'[c].token = tokenCacheMap[id].token
              /\ tokenCacheMap' = tokenCacheMap]_vars

\* a call answered from the cache while another identity has no entry
C5_Witness ==
    \E c \in Callers :
        /\ call[c].st = "returned"
        /\ call[c].exchanges = 0
        /\ call[c].token = tokenCacheMap[call[c].id].token
        /\ \E id \in Identities : tokenCacheMap[id] = NoEntry

\* C6: a token is returned from the cache only at a time before
\* expireTime - 5 minutes of its entry; every other returned token comes
\* from an exchange made by that call, whose result is in the cache with
\* expireTime = time of storing + lifetime when the call returns.
C6_NeverServedStale ==
    [][\A c \in Callers :
          /\ \A id \in Identities :
                (GetAccessToken(c, id) /\ call'[c].st = "returned") =>
                    /\ tokenCacheMap[id] # NoEntry
                    /\ ~(now >= tokenCacheMap[id].expireTime - 5 * 60 * 1000)
                    /\ call'[c].token = tokenCacheMap[id].token
          /\ \A resp \in Responses :
                (ExchangeReturn(c, resp) /\ call'[c].st = "returned") =>
                    /\ call[c].exchanges = 1
                    /\ resp.kind = "token"
                    /\ call'[c].token = IssuedToken(call[c].id, now)
                    /\ tokenCacheMap'[call[c].id] =
                           [token |-> call'[c].token,
                            expireTime |-> now +
                                (IF resp.expireIn = <<>> THEN 7200
                                 ELSE resp.expireIn[1]) * 1000]]_vars

\* an entry that sat inside the margin was replaced by a later exchange
C6_Witness ==
    \E c \in Callers :
        /\ call[c].st = "returned"
        /\ call[c].exchanges = 1
        /\ tokenCacheMap[call[c].id].token = call[c].token
        /\ \E b \in Callers :
              /\ call[b].st = "returned"
              /\ call[b].id = call[c].id
              /\ call[b].token[2] < call[c].token[2]

\* C7: when the exchange yields no accessToken the call fails with the
\* error, having made one exchange call, and neither step of the call
\* changes the cache.
C7_EmptyExchangeFails ==
    [][\A c \in Callers :
          /\ \A id \in Identities :
                GetAccessToken(c, id) => tokenCacheMap' = tokenCacheMap
          /\ \A resp \in Responses :
                (ExchangeReturn(c, resp) /\ resp.kind = "empty") =>
                    /\ call'[c].st = "failed"
                    /\ call'[c].error = ErrTokenEmpty
                    /\ call'[c].exchanges = 1
                    /\ tokenCacheMap' = tokenCacheMap]_vars

\* a call failed on an empty exchange while the cache held an entry for
\* its identity
C7_Witness ==
    \E c \in Callers :
        /\ call[c].st = "failed"
        /\ call[c].error = ErrTokenEmpty
        /\ tokenCacheMap[call[c].id] # NoEntry

\* the handlers other than the catch-all
DedicatedHandlers ==
    {messageHandlers[i] : i \in 1..(Len(messageHandlers) - 1)}

\* C8 as stated: the dedicated handler is returned for a supported msgtype,
\* and exactly one handler of the registry has canHandle true.
C8_ExactlyOneHandlerMatches ==
    classified.ran =>
        /\ data.msgtype \in SupportedTypes => classified.handler = data.msgtype
        /\ Cardinality(classified.matching) = 1

\* C8, amended: the dedicated handler is returned for a supported msgtype and
\* is the only dedicated handler that matches; the catch-all matches every
\* message and is returned exactly when no dedicated handler matches.
C8_DedicatedHandlerSelected ==
    classified.ran =>
        /\ "unsupported" \in classified.matching
        /\ data.msgtype \in SupportedTypes =>
              /\ classified.handler = data.msgtype
              /\ classified.matching \cap DedicatedHandlers = {data.msgtype}
        /\ data.msgtype \notin SupportedTypes =>
              /\ classified.handler = "unsupported"
              /\ classified.matching = {"unsupported"}

\* a richText message classified to the richText handler
C8_Witness ==
    /\ classified.ran
    /\ data.msgtype = "richText"
    /\ classified.handler = "richText"
    /\ classified.matching = {"richText", "unsupported"}

\* the text content is absent or has nothing but whitespace in it
BlankText(t) ==
    t = UndefinedText \/ \A i \in 1..Len(t) : t[i] \in {" ", "\n"}

\* the download code of a message: downloadCode, and for a picture
\* pictureDownloadCode when downloadCode is absent
CarriedCode(m) ==
    IF m.msgtype = "picture" /\ m.downloadCode = Undefined
    THEN m.pictureDownloadCode
    ELSE m.downloadCode

\* C9: validate gives {valid: false} with no error message for a text
\* message whose content is blank or absent, {valid: false} with a non-empty
\* error message for a picture, audio, video or file message with no
\* download code, and {valid: true} for every other message of these kinds.
C9_ValidateOutcomes ==
    (classified.ran /\ ~classified.threw) =>
        /\ data.msgtype = "text" =>
              IF BlankText(data.text)
              THEN classified.validation = [valid |-> FALSE, errorMessage |-> Undefined]
              ELSE classified.validation.valid
        /\ data.msgtype \in {"picture", "audio", "video", "file"} =>
              IF CarriedCode(data) \in {Undefined, ""}
              THEN /\ ~classified.validation.valid
                   /\ classified.validation.errorMessage \notin {Undefined, ""}
              ELSE classified.validation.valid

\* a text of two spaces was found invalid without an error message
C9_Witness ==
    /\ classified.ran
    /\ data.msgtype = "text"
    /\ data.text = <<" ", " ">>
    /\ classified.validation = [valid |-> FALSE, errorMessage |-> Undefined]

\* the acknowledgements sent for an event, in order
acks(e) == SelectSeq(log[e], LAMBDA x : x \in {"ack:SUCCESS", "ack:FAILURE"})
NetworkCalls == {"oauth", "fileDownload", "fetch", "post"}
\* the runtime record of the monitored account
Runtime == runtimeState[StateKey(PLUGIN_ID, accountId)]

\* C1: every network call of an event's pipeline (token exchange,
\* download-URL exchange, media fetch, webhook POST) comes after an
\* acknowledgement of that event.
C1_AckBeforeNetwork ==
    \A e \in Events :
        \A i \in 1..Len(log[e]) :
            log[e][i] \in NetworkCalls =>
                \E j \in 1..(i - 1) : log[e][j] \in {"ack:SUCCESS", "ack:FAILURE"}

\* a media fetch is still under way, the event acknowledged before the
\* exchange and the download-URL call, while the other event has failed
C1_Witness ==
    /\ ev["e2"].st = "fetch"
    /\ log["e2"] = <<"ack:SUCCESS", "oauth", "fileDownload", "fetch">>
    /\ ev["e1"].outcome = "handleFailed"

\* C2: an event whose payload decodes as JSON is acknowledged with SUCCESS
\* and with nothing else.
C2_DecodedAckedSuccess ==
    \A e \in Events :
        (ev[e].st # "waiting" /\ ev[e].decoded) => acks(e) = <<"ack:SUCCESS">>

\* C3: an event whose payload fails to decode is acknowledged with FAILURE,
\* the error text becomes lastError, and nothing else runs for it: no
\* handler is chosen, handle and the host are not called, nothing is posted.
C3_DecodeFailureTerminal ==
    /\ [](\A e \in Events :
            (ev[e].st # "waiting" /\ ~ev[e].decoded) =>
                /\ ev[e].st = "done"
                /\ log[e] = <<"ack:FAILURE">>
                /\ ev[e].handler = Undefined
                /\ ev[e].handleCalls = 0
                /\ ev[e].dispatches = 0
                /\ posts[e] = <<>>)
    /\ [][\A e \in Events :
            (ev[e].st = "waiting" /\ ev'[e].st # "waiting" /\ ~ev'[e].decoded) =>
                Runtime'.lastError = ErrJsonParse]_vars

\* an undecodable event was acknowledged with FAILURE after another event
\* had gone through to a reply
C3_Witness ==
    /\ ev["e2"].outcome = "decodeFailed"
    /\ log["e2"] = <<"ack:FAILURE">>
    /\ Runtime.lastError = ErrJsonParse
    /\ ev["e1"].outcome = "processed"

\* C10: a direct message of an unsupported msgtype goes to the catch-all,
\* whose validate gives the fixed message; that text is posted to the reply
\* address of the message (nothing is posted when it has none), and neither
\* handle nor the host is called.
C10_UnsupportedShortCircuits ==
    \A e \in Events :
        (/\ ev[e].st # "waiting"
         /\ ev[e].decoded
         /\ ev[e].data.conversationType # "2"
         /\ ev[e].data.msgtype \notin SupportedTypes) =>
            /\ ev[e].handler = "unsupported"
            /\ ev[e].validation = [valid |-> FALSE, errorMessage |-> ErrUnsupported]
            /\ ev[e].handleCalls = 0
            /\ ev[e].dispatches = 0
            /\ IF ev[e].data.sessionWebhook \in {Undefined, ""}
               THEN posts[e] = <<>>
               ELSE /\ Len(posts[e]) = 1
                    /\ posts[e][1].webhook = ev[e].data.sessionWebhook
                    /\ posts[e][1].body.markdown.text = <<ErrUnsupported>>

\* the error text of a "voice" message reached its reply address
C10_Witness ==
    \E e \in Events :
        /\ ev[e].data.msgtype = "voice"
        /\ ev[e].st = "done"
        /\ Len(posts[e]) = 1
        /\ posts[e][1].status = "ok"
        /\ posts[e][1].webhook = "https://x"

\* C4: once the stop path was triggered twice (stop() twice, or abort and
\* stop()), disconnect() has been called exactly once and running is false.
C4_IdempotentShutdown ==
    (client.stops + (IF client.aborted THEN 1 ELSE 0) >= 2) =>
        /\ client.disconnects = 1
        /\ ~Runtime.running

\* the deliver call of the dispatcher happens for event e in this step
Delivered(e) == ev[e].st = "dispatching" /\ ev'[e].delivers = ev[e].delivers + 1
\* a valid text message with a reply address
TextWithWebhook(e) ==
    ev[e].handler = "text" /\ Truthy(ev[e].data.sessionWebhook)

\* C11 as stated: a deliver call with the reply text T, for a valid text
\* message with the reply address W, starts one POST to W with the body
\* {msgtype: "text", text: {content: T}}.
C11_ReplyPostedAsText ==
    [][\A e \in Events :
          (Delivered(e) /\ TextWithWebhook(e) /\ ev'[e].reply # <<>>) =>
              /\ Len(posts'[e]) = Len(posts[e]) + 1
              /\ LET post == posts'[e][Len(posts'[e])]
                 IN  /\ post.webhook = ev[e].data.sessionWebhook
                     /\ post.body.msgtype = "text"
                     /\ post.body.text.content = ev'[e].reply]_vars

\* C11: a deliver call with the reply text T, for a valid text message with
\* the reply address W, starts exactly one POST to W, and its body is the
\* markdown one: {msgtype: "markdown", markdown: {text: T}, at: {atUserIds:
\* [], isAtAll: false}}.
C11_ReplyPostedAsMarkdown ==
    [][\A e \in Events :
          (Delivered(e) /\ TextWithWebhook(e) /\ ev'[e].reply # <<>>) =>
              posts'[e] = Append(posts[e],
                  [webhook |-> ev[e].data.sessionWebhook,
                   body |-> [msgtype |-> "markdown",
                             markdown |-> [text |-> ev'[e].reply],
                             at |-> [atUserIds |-> <<>>, isAtAll |-> FALSE]],
                   by |-> "deliver", status |-> "inflight"])]_vars

\* "hi there" was posted to https://x for a text message and accepted
C11_Witness ==
    \E e \in Events :
        /\ ev[e].data.msgtype = "text"
        /\ ev[e].data.text = <<"a">>
        /\ ev[e].reply = <<"hi there">>
        /\ Len(posts[e]) = 1
        /\ posts[e][1].webhook = "https://x"
        /\ posts[e][1].by = "deliver"
        /\ posts[e][1].status = "ok"
        /\ ev[e].outcome = "processed"

\* C12: when the save of a picture message's download succeeds, handle
\* returns one media item of kind picture whose fileSize is the number of
\* bytes downloaded, and the context handed to the host has MediaPath equal
\* to the saved path.
C12_PictureMediaContext ==
    [][\A e \in Events :
          (/\ ev[e].handler = "picture"
           /\ ev[e].st = "save"
           /\ ev'[e].st = "dispatching") =>
              /\ Len(ev'[e].media) = 1
              /\ ev'[e].media[1].kind = "picture"
              /\ ev'[e].media[1].fileSize = ev[e].buffer
              /\ ev'[e].dispatches = 1
              /\ buildMediaContextFields([items |-> ev'[e].media]).MediaPath
                    = ev'[e].media[1].path]_vars

\* a picture with the code c1 was downloaded as 3 bytes, saved and handed
\* to the host
C12_Witness ==
    \E e \in Events :
        /\ ev[e].data.msgtype = "picture"
        /\ ev[e].data.downloadCode = "c1"
        /\ ev[e].st = "dispatching"
        /\ Len(ev[e].media) = 1
        /\ ev[e].media[1].fileSize = 3
        /\ buildMediaContextFields([items |-> ev[e].media]).MediaPath = <<"inbound", e, "c1">>

\* the download code an element carries: downloadCode, else (when that is
\* absent) pictureDownloadCode
ElementCode(el) ==
    IF el.downloadCode # Undefined THEN el.downloadCode ELSE el.pictureDownloadCode
\* the non-picture elements with a non-empty text
TextElements(richText) ==
    SelectSeq(richText, LAMBDA el : el.type # "picture" /\ el.text \notin {UndefinedText, <<>>})
\* the picture elements with a download code
CodedPictures(richText) ==
    SelectSeq(richText, LAMBDA el : el.type = "picture" /\ ElementCode(el) \notin {Undefined, ""})

FailuresCaught(e) ==
    /\ "unhandled" \notin ev[e].caught
    /\ (ev[e].outcome = "handleFailed" /\ ev[e].handler # "unsupported") =>
          /\ "handle.catch" \in ev[e].caught
          /\ ev[e].dispatches = 0
          /\ Len(posts[e]) = (IF Truthy(ev[e].data.sessionWebhook) THEN 1 ELSE 0)
    /\ ev[e].outcome = "dispatchFailed" => "processMessageAsync.catch" \in ev[e].caught
    /\ \A i \in 1..Len(posts[e]) :
          /\ (posts[e][i].by = "replyError" /\ posts[e][i].status = "failed") =>
                "replyError.catch" \in ev[e].caught
          /\ (posts[e][i].by = "deliver" /\ posts[e][i].status \in {"rejected", "failed"}) =>
                "host" \in ev[e].caught

C15_OutboundOnSuccessOnly ==
    [][Runtime'.lastOutboundAt # Runtime.lastOutboundAt =>
          \E e \in Events :
              /\ ev[e].st = "posting"
              /\ posts[e][Len(posts[e])].by = "deliver"
              /\ posts'[e][Len(posts[e])].status = "ok"]_vars

\* C16: a group message that mentions the robot (the stream delivers group
\* messages to a robot only when it is mentioned) reaches the handler
\* pipeline as a direct message does: once the callback has run, a handler
\* was chosen for it and it was not dropped as a group message.
C16_GroupReachesPipeline ==
    \A e \in Events :
        (/\ ev[e].st # "waiting"
         /\ ev[e].decoded
         /\ ev[e].data.conversationType = "2") =>
            /\ ev[e].handler = getMessageHandler(ev[e].data)
            /\ ev[e].outcome # "groupIgnored"

\* C17: with allowFrom set to specific user ids, a message from a sender
\* outside the list is never handed to the host and no reply is posted for
\* it.
C17_OutsidersIgnored ==
    \A e \in Events :
        ~isSenderAllowed(allowFrom, senderStaffId(e)) =>
            /\ ev[e].dispatches = 0
            /\ \A i \in 1..Len(posts[e]) : posts[e][i].by # "deliver"

\* the call gives no target: `to` is absent, empty or blank
NoTargetGiven == request.to = UndefinedString \/ IsEmpty(trimTarget(request.to))
\* an entry that names a user: not blank, not "*", well-formed once trimmed
\* and without its prefix
Usable(entry) ==
    /\ ~IsEmpty(trimTarget(entry))
    /\ ~IsWildcard(trimTarget(entry))
    /\ WellFormed(entry.id)
UsableIndexes == {i \in 1..Len(request.allowFrom) : Usable(request.allowFrom[i])}

C19_LastRefreshWins ==
    /\ [](\A c \in Callers :
            /\ call[c].exchanges <= 1
            /\ call[c].st = "returned" => call[c].token[1] = call[c].id)
    /\ [][\A c \in Callers, resp \in Responses :
            ExchangeReturn(c, resp) =>
                /\ resp.kind = "token" =>
                      tokenCacheMap'[call[c].id].token = call'[c].token
                /\ \A id \in Identities \ {call[c].id} :
                      tokenCacheMap'[id] = tokenCacheMap[id]
                /\ \A id \in Identities :
                      tokenCacheMap[id] # NoEntry => tokenCacheMap'[id] # NoEntry]_vars

\* two calls for one identity raced past the expiry check: one refresh has
\* completed and stored its token, the other is still in flight
C19_Witness ==
    \E b, c \in Callers :
        /\ b # c
        /\ call[b].id = call[c].id
        /\ call[b].st = "exchanging"
        /\ call[c].st = "returned"
        /\ call[c].exchanges = 1
        /\ call[c].token[2] > 0
        /\ tokenCacheMap[call[c].id].token = call[c].token

\* C20: an event whose callback has run has exactly one acknowledgement,
\* SUCCESS or FAILURE, on every path (group message, invalid message, valid
\* message, decode failure, a throwing getPreview or validate), and keeps
\* exactly that one through the rest of its pipeline; an event not yet
\* handled has none.
C20_ExactlyOneAck ==
    \A e \in Events :
        IF ev[e].st = "waiting"
        THEN acks(e) = <<>>
        ELSE Len(acks(e)) = 1

\* one event was rejected by a throwing getPreview and acknowledged FAILURE
\* once; another was valid, got its reply delivered and still has the single
\* SUCCESS acknowledgement
C20_Witness ==
    \E e, f \in Events :
        /\ ev[e].outcome = "previewThrew"
        /\ acks(e) = <<"ack:FAILURE">>
        /\ ev[f].delivers >= 1
        /\ ev[f].st = "done"
        /\ acks(f) = <<"ack:SUCCESS">>

\* the steps of handler.handle that wait for a download
DownloadStates == {"exchange", "fileDownload", "fetch", "save"}
\* a download step of event e fails in this step
HandleFails(e) ==
    ev[e].st \in DownloadStates /\ ev'[e].outcome = "handleFailed"

\* C21: when a download of a richText message with several pictures fails,
\* whatever the number of pictures already saved, handle's result carries no
\* media, at most one error message (the one of the richText handler) goes
\* to the reply address, and the message keeps the text field it came with;
\* the host is never invoked for that message afterwards.
C21_RichTextFailureDiscardsItems ==
    /\ [][\A e \in Events :
            (HandleFails(e) /\ ev[e].handler = "richText" /\ Len(ev[e].codes) >= 2) =>
                /\ ev'[e].media = <<>>
                /\ ev'[e].data = ev[e].data
                /\ ev'[e].data.text = UndefinedText
                /\ Len(posts'[e]) <= Len(posts[e]) + 1
                /\ \A i \in (Len(posts[e]) + 1)..Len(posts'[e]) :
                      /\ posts'[e][i].by = "replyError"
                      /\ posts'[e][i].body.markdown.text[1] = FailedPrefix("richText")]_vars
    /\ [](\A e \in Events :
            ev[e].outcome = "handleFailed" =>
                /\ ev[e].dispatches = 0
                /\ ev[e].delivers = 0
                /\ ev[e].media = <<>>)

\* the first picture of a richText message with a text and two pictures was
\* saved, the download of the second failed, and the error reply went out
C21_Witness ==
    \E e \in Events :
        /\ ev[e].handler = "richText"
        /\ Len(ev[e].codes) = 2
        /\ Len(ev[e].items) = 1
        /\ ev[e].outcome = "handleFailed"
        /\ ev[e].media = <<>>
        /\ ev[e].data.text = UndefinedText
        /\ Len(posts[e]) = 1

\* the errors a download step can fail with
ErrorsOf(st) ==
    CASE st = "exchange" -> {ErrTokenEmpty, ErrNetwork}
      [] st = "fileDownload" -> {ErrNoUrl, ErrNetwork}
      [] st = "fetch" -> {ErrFetchStatus, ErrNetwork}
      [] st = "save" -> {ErrSave}
\* how many times event e made the outside call c
Count(e, c) == Len(SelectSeq(log[e], LAMBDA x : x = c))

\* C22: when a download step of a media message fails, one error reply made
\* of the handler's prefix and the text of the underlying error is posted to
\* the reply address if the message has one, and none otherwise; from then
\* on the event has exactly that many POSTs, the host is never invoked for
\* it, and each download step was attempted at most once per download code.
C22_HandleFailureRepliedOnce ==
    /\ [][\A e \in Events :
            HandleFails(e) =>
                LET webhook == ev[e].data.sessionWebhook
                IN  IF Truthy(webhook)
                    THEN /\ Len(posts'[e]) = Len(posts[e]) + 1
                         /\ LET post == posts'[e][Len(posts'[e])]
                            IN  /\ post.webhook = webhook
                                /\ post.body.markdown.text[1] = FailedPrefix(ev[e].handler)
                                /\ post.body.markdown.text[2] \in ErrorsOf(ev[e].st)
                    ELSE posts'[e] = posts[e]]_vars
    /\ [](\A e \in Events :
            ev[e].outcome = "handleFailed" /\ ev[e].handler # "unsupported" =>
                /\ Len(posts[e]) = IF Truthy(ev[e].data.sessionWebhook) THEN 1 ELSE 0
                /\ ev[e].dispatches = 0
                /\ ev[e].handleCalls = 1
                /\ \A c \in {"oauth", "fileDownload", "fetch", "save"} :
                      Count(e, c) <= Len(ev[e].items) + 1)

\* the save of an audio message failed after its fetch: the error reply
\* with the text of the save error was posted and answered
C22_Witness ==
    \E e \in Events :
        /\ ev[e].handler = "audio"
        /\ ev[e].outcome = "handleFailed"
        /\ ev[e].st = "done"
        /\ Count(e, "fetch") = 1
        /\ Count(e, "save") = 1
        /\ Len(posts[e]) = 1
        /\ posts[e][1].body.markdown.text = <<FailedPrefix("audio"), ErrSave>>

\* C23: an event whose message validates as invalid is acknowledged SUCCESS
\* and neither handle nor the host dispatch runs for it; when the validation
\* carries no error message nothing is posted, and when it carries one that
\* message is posted once to the reply address if the message has one and
\* nothing is posted otherwise.
C23_InvalidMessages ==
    \A e \in Events :
        ev[e].outcome = "invalid" =>
            /\ ~ev[e].validation.valid
            /\ acks(e) = <<"ack:SUCCESS">>
            /\ ev[e].handleCalls = 0
            /\ ev[e].dispatches = 0
            /\ IF /\ ev[e].validation.errorMessage # Undefined
                  /\ Truthy(ev[e].data.sessionWebhook)
               THEN /\ Len(posts[e]) = 1
                    /\ posts[e][1].webhook = ev[e].data.sessionWebhook
                    /\ posts[e][1].body.markdown.text = <<ev[e].validation.errorMessage>>
               ELSE posts[e] = <<>>

\* an empty richText message with a reply address was dropped without a
\* reply
C23_Witness ==
    \E e \in Events :
        /\ ev[e].outcome = "invalid"
        /\ ev[e].st = "done"
        /\ ev[e].handler = "richText"
        /\ ev[e].data.richText = <<>>
        /\ Truthy(ev[e].data.sessionWebhook)
        /\ ev[e].validation.errorMessage = Undefined
        /\ posts[e] = <<>>
        /\ acks(e) = <<"ack:SUCCESS">>

\* the POSTs deliver made for event e
DeliverPosts(e) == SelectSeq(posts[e], LAMBDA post : post.by = "deliver")
\* the POST of a deliver call of event e comes back with this status
PostAnswered(e, status) ==
    /\ ev[e].st = "posting"
    /\ ev'[e].st = "dispatching"
    /\ posts'[e][Len(posts'[e])].status = status

\* C24: when the POST of a deliver call is answered with a non-zero errcode,
\* deliver throws its own reply-failed error to the host (a transport
\* failure of the POST surfaces as another error), no further POST is made
\* and lastOutboundAt is not recorded; deliver makes at most one POST per
\* call.
C24_RejectedReplyFails ==
    /\ [][\A e \in Events :
            /\ PostAnswered(e, "rejected") =>
                  /\ ev'[e].thrown = ErrReplyFailed
                  /\ "host" \in ev'[e].caught
                  /\ Len(posts'[e]) = Len(posts[e])
                  /\ log'[e] = log[e]
                  /\ runtimeState' = runtimeState
            /\ PostAnswered(e, "failed") =>
                  /\ ev'[e].thrown \notin {Undefined, ErrReplyFailed}
                  /\ Len(posts'[e]) = Len(posts[e])]_vars
    /\ [](\A e \in Events : Len(DeliverPosts(e)) <= ev[e].delivers)

\* the host's reply was posted, the webhook answered with a non-zero
\* errcode, and the dispatch went on to its end without another POST
C24_Witness ==
    \E e \in Events :
        /\ ev[e].st = "done"
        /\ ev[e].delivers = 1
        /\ ev[e].thrown = ErrReplyFailed
        /\ Len(posts[e]) = 1
        /\ posts[e][1].status = "rejected"
        /\ Runtime.lastOutboundAt = Null

\* C25: no webhook POST is ever made for a message that carries no reply
\* address, whether for a reply of the host, a validation error or a
\* handler error.
C25_NoAddressNoPost ==
    \A e \in Events :
        (ev[e].decoded /\ ~Truthy(ev[e].data.sessionWebhook)) =>
            /\ posts[e] = <<>>
            /\ Count(e, "post") = 0

\* the host's reply to a message without a reply address was dropped
C25_Witness ==
    \E e \in Events :
        /\ ev[e].decoded
        /\ ~Truthy(ev[e].data.sessionWebhook)
        /\ ev[e].st = "done"
        /\ ev[e].delivers = 1
        /\ ev[e].reply # <<>>
        /\ posts[e] = <<>>

\* a pipeline that has started and not reached its end
InFlight(e) == ev[e].st \notin {"waiting", "done"}
\* stopHandler runs in this step, called by stop() or by the abort signal
StopHandlerRuns == client'.disconnects > client.disconnects

\* C26: stop() and the abort signal touch the connection and the runtime
\* state only: the step leaves every event's pipeline, its POSTs and its
\* calls as they were, and once stopHandler has run a pipeline in flight
\* can still take its next step.
C26_StopLeavesPipelines ==
    /\ [][StopHandlerRuns =>
            /\ ev' = ev
            /\ posts' = posts
            /\ log' = log
            /\ Runtime'.running = FALSE]_vars
    /\ []((client.disconnects > 0 /\ InFlight("e1")) =>
            ENABLED Pipeline("e1", LifecyclePayloads))

\* stop() ran while a message was being processed; the reply was posted
\* afterwards, and lastOutboundAt is later than lastStopAt while the state
\* says the monitor is not running
C26_Witness ==
    /\ client.stops >= 1
    /\ Runtime.running = FALSE
    /\ ev["e1"].st = "done"
    /\ ev["e1"].outcome = "processed"
    /\ Len(posts["e1"]) = 1
    /\ posts["e1"][1].status = "ok"
    /\ Runtime.lastStopAt # Null
    /\ Runtime.lastOutboundAt # Null
    /\ Runtime.lastOutboundAt[1] > Runtime.lastStopAt[1]

\* C27: the event that arrived first is acknowledged first; every step
\* changes the record, the POSTs and the calls of one event at most; an
\* event that reached its end keeps its outcome whatever the other one does;
\* and a pipeline in flight can always take its next step, whatever state
\* the other event is in.
C27_IndependentPipelines ==
    /\ [](acks("e2") # <<>> => acks("e1") # <<>>)
    /\ [][\A e, f \in Events :
            (e # f /\ <<ev[e], posts[e], log[e]>> # <<ev'[e], posts'[e], log'[e]>>) =>
                <<ev[f], posts[f], log[f]>> = <<ev'[f], posts'[f], log'[f]>>]_vars
    /\ [][\A e \in Events :
            ev[e].st = "done" => <<ev[e], posts[e], log[e]>> = <<ev'[e], posts'[e], log'[e]>>]_vars
    /\ [](\A e \in Events : InFlight(e) => ENABLED Pipeline(e, LifecyclePayloads))

\* the reply to the second event was delivered while the reply to the
\* first, which arrived before it, is still being posted
C27_Witness ==
    /\ ev["e1"].st = "posting"
    /\ posts["e1"][Len(posts["e1"])].status = "inflight"
    /\ ev["e2"].st = "done"
    /\ ev["e2"].outcome = "processed"
    /\ Len(posts["e2"]) = 1
    /\ posts["e2"][1].status = "ok"

\* C28: the pictures of a richText message are downloaded one at a time:
\* a download step of the next picture is made only after the one before it
\* was saved, so no step was made more often than there are saved items
\* plus the one in progress; and the media handed on holds one item per
\* picture element that carries a code, in element order, with the first
\* item as primary.
C28_PicturesInOrder ==
    /\ [](\A e \in Events :
            ev[e].handler = "richText" =>
                /\ Len(ev[e].items) <= Len(ev[e].codes)
                /\ \A c \in {"fileDownload", "fetch", "save"} :
                      Count(e, c) <= Len(ev[e].items) + 1
                /\ ev[e].st = "dispatching" =>
                      \A c \in {"fileDownload", "fetch", "save"} :
                          Count(e, c) = Len(ev[e].items))
    /\ [][\A e \in Events :
            (/\ ev[e].handler = "richText"
             /\ ev[e].st = "save"
             /\ ev'[e].st = "dispatching") =>
                LET pictures == CodedPictures(ev[e].data.richText)
                    media == ev'[e].media
                IN  /\ Len(media) = Len(pictures)
                    /\ \A i \in 1..Len(media) :
                          media[i].path = <<"inbound", e, ElementCode(pictures[i])>>
                    /\ buildMediaContextFields([items |-> media]).MediaPath = media[1].path]_vars

\* both pictures of a richText message were saved, and the media handed to
\* the host holds them in the order of the elements
C28_Witness ==
    \E e \in Events :
        /\ ev[e].handler = "richText"
        /\ ev[e].st = "dispatching"
        /\ Len(ev[e].media) = 2
        /\ ev[e].media[1].path = <<"inbound", e, "c1">>
        /\ ev[e].media[2].path = <<"inbound", e, "c2">>
        /\ Count(e, "save") = 2

\* the download calls of event e, in the order they were made
DownloadCalls(e) ==
    SelectSeq(log[e], LAMBDA x : x \in {"fileDownload", "fetch", "save"})
DownloadOrder == <<"fileDownload", "fetch", "save">>
\* the step added nothing to the download calls and the items of event e
NothingFetchedOrSaved(e) ==
    /\ SelectSeq(log'[e], LAMBDA x : x \in {"fileDownload", "fetch", "save"})
          = DownloadCalls(e)
    /\ ev'[e].items = ev[e].items
    /\ ev'[e].media = <<>>
\* the text of the error reply the step posted, if it posted one
ErrorReplied(e, err) ==
    \A i \in (Len(posts[e]) + 1)..Len(posts'[e]) :
        posts'[e][i].body.markdown.text[2] = err

\* C29: the download calls of an event are made in the fixed order
\* download-link call, fetch, save, each download-link call coming after
\* the token was obtained; a download-link answer with no URL fails the
\* download with the no-URL error and a fetch answered with a non-success
\* status fails it with the status error, and in both cases nothing more
\* is fetched or saved; the fetch follows an answer with a URL and the save
\* follows a successful fetch.
C29_DownloadProtocol ==
    /\ [](\A e \in Events :
            /\ \A i \in 1..Len(DownloadCalls(e)) :
                  DownloadCalls(e)[i] = DownloadOrder[((i - 1) % 3) + 1]
            /\ ev[e].st \in {"fileDownload", "fetch", "save"} =>
                  /\ call[e].st = "returned"
                  /\ call[e].token[1] = clientId)
    /\ [][\A e \in Events :
            /\ FileDownloadReturn(e, "empty") =>
                  /\ ev'[e].outcome = "handleFailed"
                  /\ NothingFetchedOrSaved(e)
                  /\ ErrorReplied(e, ErrNoUrl)
            /\ FileDownloadReturn(e, "url") =>
                  /\ ev'[e].st = "fetch"
                  /\ log'[e] = Append(log[e], "fetch")
            /\ (\E size \in BufferSizes : FetchReturn(e, "notOk", size)) =>
                  /\ ev'[e].outcome = "handleFailed"
                  /\ NothingFetchedOrSaved(e)
                  /\ ErrorReplied(e, ErrFetchStatus)
            /\ (\E size \in BufferSizes : FetchReturn(e, "ok", size)) =>
                  /\ ev'[e].st = "save"
                  /\ log'[e] = Append(log[e], "save")]_vars

\* a download-link call answered without a URL: the download failed with
\* the no-URL error before any fetch
C29_Witness ==
    \E e \in Events :
        /\ ev[e].outcome = "handleFailed"
        /\ DownloadCalls(e) = <<"fileDownload">>
        /\ ev[e].items = <<>>
        /\ Len(posts[e]) = 1
        /\ posts[e][1].body.markdown.text[2] = ErrNoUrl

\* the texts of the non-picture elements of a richText list, joined by
\* newlines and trimmed
JoinedText(richText) ==
    LET elements == TextElements(richText)
    IN  Trim(JoinLines([i \in 1..Len(elements) |-> elements[i].text]))
\* the richText handle of event e returned with success and had a text
WroteText(e) ==
    /\ ev[e].handler = "richText"
    /\ ev[e].dispatches >= 1
    /\ JoinedText(ev[e].received.richText) # <<>>

\* C30: through the whole pipeline a decoded message is the message as it
\* was received, except that after a successful richText handle with a
\* non-empty joined text its text field holds that joined text; the body
\* built for the host is the trimmed text of the message as it is then,
\* hence the written text, and the media placeholder when there is none.
C30_OnlyRichTextWritesText ==
    \A e \in Events :
        ev[e].decoded =>
            /\ IF WroteText(e)
               THEN ev[e].data = [ev[e].received EXCEPT
                                     !.text = JoinedText(ev[e].received.richText)]
               ELSE ev[e].data = ev[e].received
            /\ ev[e].dispatches >= 1 =>
                  /\ WroteText(e) =>
                        ev[e].rawBody = JoinedText(ev[e].received.richText)
                  /\ ev[e].rawBody = buildMessageBody(ev[e].data, ev[e].media).rawBody

\* a richText message with a text and two pictures came without a text
\* field and was handed to the host with the text written and used as body
C30_Witness ==
    \E e \in Events :
        /\ ev[e].handler = "richText"
        /\ ev[e].st = "dispatching"
        /\ Len(ev[e].media) = 2
        /\ ev[e].received.text = UndefinedText
        /\ ev[e].data.text = <<"a">>
        /\ ev[e].rawBody = <<"a">>

\* the step is the callback of an inbound message that passed getPreview
InboundRecorded ==
    /\ ev["e1"].st = "waiting"
    /\ ev'["e1"].st # "waiting"
    /\ ev'["e1"].outcome \notin {"decodeFailed", "groupIgnored", "previewThrew"}

\* C31: the monitor starts with running=true and lastStartAt set and the
\* other fields at their defaults; a connection close changes running and
\* lastStopAt only, a connection error lastError only, an inbound message
\* lastInboundAt only; and no step changes the record of another account.
C31_StateUpdatesMerge ==
    /\ Runtime = [DefaultRuntime EXCEPT !.present = TRUE, !.running = TRUE,
                                        !.lastStartAt = <<now>>]
    /\ [][/\ ConnClose =>
               Runtime' = [Runtime EXCEPT !.present = TRUE, !.running = FALSE,
                                          !.lastStopAt = <<now>>]
          /\ ConnError =>
               Runtime' = [Runtime EXCEPT !.present = TRUE, !.lastError = ErrSocket]
          /\ InboundRecorded =>
               Runtime' = [Runtime EXCEPT !.present = TRUE, !.lastInboundAt = <<now>>]
          /\ \A key \in StateKeys \ {StateKey(PLUGIN_ID, accountId)} :
               runtimeState'[key] = runtimeState[key]]_vars

\* after a message came in, an error and a close of the connection, each
\* field holds the value of the update that named it
C31_Witness ==
    /\ Runtime.running = FALSE
    /\ Runtime.lastStartAt = <<0>>
    /\ Runtime.lastStopAt # Null
    /\ Runtime.lastStopAt[1] > 0
    /\ Runtime.lastError = ErrSocket
    /\ Runtime.lastInboundAt # Null
    /\ client.conn = "closed"
    /\ client.disconnects = 0
    /\ runtimeState[StateKey(PLUGIN_ID, "other")] = DefaultRuntime

\* C32: a connect that fails, the first one or one made to reconnect, is
\* caught by the wrapper: no rejection is left unhandled, and the step
\* records running=false, lastStopAt and the failure text as lastError,
\* leaving the other fields as they were.
C32_ConnectFailureRecorded ==
    /\ [](client.unhandled = 0)
    /\ [][ConnectFails =>
            Runtime' = [Runtime EXCEPT !.present = TRUE, !.running = FALSE,
                                       !.lastStopAt = <<now>>,
                                       !.lastError = ErrConnect]]_vars

\* the connection had been open (a message came in over it), closed, and
\* the connect made to reopen it failed
C32_Witness ==
    /\ Runtime.lastInboundAt # Null
    /\ client.conn = "closed"
    /\ client.disconnects = 0
    /\ client.unhandled = 0
    /\ Runtime.running = FALSE
    /\ Runtime.lastError = ErrConnect
    /\ Runtime.lastStopAt # Null

\* C33: the running flag agrees with the session: it is true whenever the
\* connection is open and neither stop() nor the abort signal has occurred,
\* and false once stop() has run.
C33_RunningAgreesWithSession ==
    /\ (client.conn = "open" /\ client.stops = 0 /\ ~client.aborted) =>
          Runtime.running = TRUE
    /\ client.stops > 0 => Runtime.running = FALSE

\* the outcomes a pipeline ends with
TerminalOutcomes ==
    {"decodeFailed", "groupIgnored", "previewThrew", "invalid", "handleFailed",
     "processed", "dispatchFailed"}

\* C34: when every outside call eventually returns or fails, every event
\* the callback was called for has been acknowledged and its pipeline
\* eventually reaches its end with one of the terminal outcomes, whatever
\* the other event does and whether or not it ever arrives.
C34_EveryPipelineEnds ==
    \A e \in Events :
        (ev[e].st # "waiting") ~>
            (/\ ev[e].st = "done"
             /\ ev[e].outcome \in TerminalOutcomes
             /\ Len(acks(e)) = 1)

\* the first event reached its end after a download and a delivered reply
\* while the second never arrived
C34_Witness ==
    /\ ev["e1"].st = "done"
    /\ ev["e1"].outcome = "processed"
    /\ Count("e1", "save") = 1
    /\ Len(posts["e1"]) = 1
    /\ posts["e1"][1].status = "ok"
    /\ ev["e2"].st = "waiting"


\* ---------------------------------------------------------------------
\* C35: the From and To addresses of the inbound context are a function of
\* the sender id and the conversation kind alone: two messages with the same
\* sender id and conversation kind get the same From and the same To,
\* whatever their names, texts and media, and both are dingtalk:<sender id>;
\* From equals To for a direct message
C35_AddressesFromSenderAlone ==
    context.ran =>
        LET a == context.a.data
            b == context.b.data
        IN  /\ (a.senderStaffId = b.senderStaffId
                   /\ a.conversationType = b.conversationType) =>
                  /\ context.ctxA.From = context.ctxB.From
                  /\ context.ctxA.To = context.ctxB.To
            /\ context.ctxA.From = <<PLUGIN_ID, ":", a.senderStaffId>>
            /\ context.ctxB.From = <<PLUGIN_ID, ":", b.senderStaffId>>
            /\ a.conversationType = "1" => context.ctxA.From = context.ctxA.To
            /\ b.conversationType = "1" => context.ctxB.From = context.ctxB.To

\* two direct messages of one sender under different names, one with a text
\* and two media items, the other with another text and no media
C35_Witness ==
    /\ context.ran
    /\ context.a.data.senderStaffId = "u2"
    /\ context.b.data.senderStaffId = "u2"
    /\ context.a.data.conversationType = "1"
    /\ context.b.data.conversationType = "1"
    /\ context.a.data.senderNick = "Ann"
    /\ context.b.data.senderNick = "Bob"
    /\ context.a.data.text = <<" ", "a", " ">>
    /\ Len(itemsOf(context.a.media)) = 2
    /\ context.ctxA.From = <<"dingtalk", ":", "u2">>
    /\ context.ctxB.To = <<"dingtalk", ":", "u2">>
    /\ context.ctxA.ConversationLabel # context.ctxB.ConversationLabel

\* the media fields a context can carry
MediaFieldNames ==
    {"MediaPath", "MediaType", "MediaUrl", "MediaPaths", "MediaUrls",
     "MediaTypes", "MediaDuration", "MediaFileName", "MediaFileSize"}

\* C36: for a non-empty media context MediaPath and MediaType are those of
\* the primary item (the first item when primary is absent), MediaPaths and
\* MediaTypes are as long as items and their index i holds the path and the
\* content type of item i; for an absent or empty media context no media
\* field is set
C36_MediaFieldsParallel ==
    context.ran =>
        LET items == itemsOf(context.a.media)
            ctx == context.ctxA
            primary == IF Has(context.a.media, "primary")
                       THEN context.a.media.primary ELSE items[1]
        IN  IF items = <<>>
            THEN DOMAIN ctx \cap MediaFieldNames = {}
            ELSE /\ ctx.MediaPath = primary.path
                 /\ ctx.MediaType = primary.contentType
                 /\ Len(ctx.MediaPaths) = Len(items)
                 /\ Len(ctx.MediaTypes) = Len(items)
                 /\ \A i \in 1..Len(items) :
                        /\ ctx.MediaPaths[i] = items[i].path
                        /\ ctx.MediaTypes[i] = items[i].contentType

\* the markers of a placeholder: its pieces between the joining spaces
RECURSIVE MarkersOf(_)
MarkersOf(body) ==
    IF body = <<>> THEN <<>>
    ELSE LET k == CHOOSE n \in 1..Len(body) :
                     /\ body[n] = ">"
                     /\ \A j \in 1..(n - 1) : body[j] # ">"
         IN  <<SubSeq(body, 1, k)>>
                \o MarkersOf(SubSeq(body, k + 2, Len(body)))

\* what the marker of an item carries besides its kind
CarriedBy(item) ==
    IF item.kind \in {"audio", "video"} /\ Has(item, "duration") /\ item.duration # 0
    THEN <<" duration=", ToString(item.duration), "s">>
    ELSE IF item.kind = "file" /\ Has(item, "fileName") /\ item.fileName # ""
    THEN <<" name=\"", item.fileName, "\"">>
    ELSE <<>>

\* the body of a message with the given text and items
BodyAsSpecified(input, body) ==
    LET text == IF input.data.text = UndefinedText THEN <<>>
                ELSE Trim(input.data.text)
        items == itemsOf(input.media)
        markers == MarkersOf(body)
    IN  /\ text # <<>> => body = text
        /\ text = <<>> =>
              /\ Len(markers) = Len(items)
              /\ \A i \in 1..Len(items) :
                    /\ Len(markers[i]) >= 3
                    /\ markers[i][1] = "<media:"
                    /\ markers[i][2] = items[i].kind
                    /\ markers[i][Len(markers[i])] = ">"
                    /\ SubSeq(markers[i], 3, Len(markers[i]) - 1)
                          = CarriedBy(items[i])
              /\ \A n \in 1..Len(body) :
                    (body[n] = ">" /\ n < Len(body)) => body[n + 1] = " "
        /\ body = <<>> <=> (text = <<>> /\ items = <<>>)

\* C37: the body handed to the host is the trimmed text of the message when
\* that is not empty; otherwise it is the media placeholder, one marker per
\* item in the order of the items, joined by spaces, the marker of an audio
\* or a video carrying its duration and that of a file its name (when the
\* item has one); the body is empty exactly when there is neither text nor
\* media
C37_BodyIsTextElsePlaceholder ==
    context.ran =>
        /\ BodyAsSpecified(context.a, context.ctxA.RawBody)
        /\ BodyAsSpecified(context.b, context.ctxB.RawBody)
        /\ context.ctxA.CommandBody = context.ctxA.RawBody

\* a blank text with an audio and a file gives the two markers, and a text
\* without media gives the text
C37_Witness ==
    /\ context.ran
    /\ context.a.data.text = <<" ">>
    /\ Len(itemsOf(context.a.media)) = 2
    /\ context.ctxA.RawBody =
          <<"<media:", "audio", " duration=", "2", "s", ">", " ",
            "<media:", "file", " name=\"", "f.pdf", "\"", ">">>
    /\ context.ctxB.RawBody = <<"a">>

\* C38: in implicit or heartbeat mode, when allowFrom has at least one entry
\* and none of its entries is "*", resolveTarget never returns ok with a
\* target that is not one of the allowFrom entries (trimmed, prefix
\* removed), whatever `to` is and whatever the entries look like
C38_ImplicitStaysInAllowFrom ==
    (/\ resolved.ran
     /\ request.mode \in {"implicit", "heartbeat"}
     /\ Len(request.allowFrom) > 0
     /\ \A i \in 1..Len(request.allowFrom) :
           ~IsWildcard(trimTarget(request.allowFrom[i]))
     /\ resolved.result.ok)
        => \E i \in 1..Len(request.allowFrom) :
              normalizeDingTalkTarget(request.allowFrom[i]) = resolved.result.to

\* the image message is among the messages sent
ImageSent == \E i \in 1..Len(outbound.sent) :
                outbound.sent[i].msgKey = "sampleImageMsg"
\* the fallback text, with its link, is among the messages sent
FallbackSent ==
    \E i \in 1..Len(outbound.sent) :
        outbound.sent[i] = textMessage(fallbackText(outbound.text, outbound.mediaUrl))

\* C39: a sendMedia with a media URL sends the image (and the text after it
\* when the text is not blank) or the fallback text with the link, never
\* both: the fallback text is sent only when the image was not sent,
\* wherever load, upload, image send or text send fails
C39_ImageOrFallbackNeverBoth ==
    /\ ~(ImageSent /\ FallbackSent)
    /\ (outbound.st = "done" /\ outbound.result = "imageResult") =>
          outbound.sent =
            <<imageMessage(outbound.photoURL)>>
               \o (IF HasText(outbound.text) THEN <<textMessage(outbound.text)>>
                   ELSE <<>>)

======================================================================
